---- MODULE Spec2Model ----
(***************************************************************************)
(* ppdpy: a text preprocessor.  The expression compiler (lex, parse, eval) *)
(* and the template compiler (compile, render) are modelled as operators   *)
(* over sequences of one-character strings; the state machines apply them  *)
(* to inputs drawn from bounded sets.                                      *)
(*                                                                         *)
(* A Python str is a sequence of one-character strings.  A call that can   *)
(* raise returns a tuple whose first element is "ok" or "raise".           *)
(***************************************************************************)
EXTENDS Naturals, Sequences, FiniteSets, TLC

VARIABLES
    mode,        \* which engine this behaviour exercises: "expr", "eval", "tpl"
    pc,          \* position of the caller: "input", "lexed", "compiled", "evaluated",
                 \* "rendered", or the exception that render raised
    text,        \* the str handed to lex / compile / compiles
    tokens,      \* list(lex(text))
    result,      \* what compile returned or raised: <<"ok", x>> or <<"raise", kind>>
    symbols,     \* the symbol set handed to evaluate / render
    value,       \* what evaluate returned
    out,         \* what render returned
    PPD_PREFIX,  \* template_compiler.PPD_PREFIX, the process-wide directive prefix
    prefix_arg   \* the prefix argument of the last set_directive_prefix call: <<type, str>>

vars == <<mode, pc, text, tokens, result, symbols, value, out, PPD_PREFIX, prefix_arg>>

(***************************************************************************)
(* Bounds of the model.                                                    *)
(***************************************************************************)
MaxTokens == 5      \* longest token sequence enumerated exhaustively
MaxOperands == 3    \* most operands in an and/or chain with optional nots
MaxChain == 5       \* most operands in a chain joined by a single operator
MaxPieces == 4      \* most lexical pieces concatenated into a lexer input
MaxNodes == 5       \* most nodes in an enumerated AST
MaxTextLen == 4     \* longest document enumerated character by character
MaxBranches == 3    \* most #if/#elif branches of a conditional that is not nested
MaxDepth == 2       \* most conditionals nested inside a conditional

(***************************************************************************)
(* Strings.                                                                *)
(***************************************************************************)
RECURSIVE Concat(_)
Concat(ss) == IF ss = <<>> THEN <<>> ELSE Head(ss) \o Concat(Tail(ss))

RECURSIVE Join(_, _)
Join(ss, sep) ==
    IF ss = <<>> THEN <<>>
    ELSE IF Len(ss) = 1 THEN ss[1]
    ELSE ss[1] \o sep \o Join(Tail(ss), sep)

\* A str is a sequence of its characters, each a string of one character.
\* A TLA+ string can be written with every character of U+0001 to U+00FF
\* but the grave accent, and with a character above U+00FF when its low
\* byte is 0x80 or more; a character that can not be written is the string
\* of its code point, "U+0253" for U+0253.
GRAVE == "U+0060"

\* str.lower() on one character: every letter a TLA+ string can be written
\* with that has a lower case, beside that lower case
LowerPairs ==
    {<<"A", "a">>, <<"B", "b">>, <<"C", "c">>, <<"D", "d">>,
     <<"E", "e">>, <<"F", "f">>, <<"G", "g">>, <<"H", "h">>,
     <<"I", "i">>, <<"J", "j">>, <<"K", "k">>, <<"L", "l">>,
     <<"M", "m">>, <<"N", "n">>, <<"O", "o">>, <<"P", "p">>,
     <<"Q", "q">>, <<"R", "r">>, <<"S", "s">>, <<"T", "t">>,
     <<"U", "u">>, <<"V", "v">>, <<"W", "w">>, <<"X", "x">>,
     <<"Y", "y">>, <<"Z", "z">>, <<"À", "à">>, <<"Á", "á">>,
     <<"Â", "â">>, <<"Ã", "ã">>, <<"Ä", "ä">>, <<"Å", "å">>,
     <<"Æ", "æ">>, <<"Ç", "ç">>, <<"È", "è">>, <<"É", "é">>,
     <<"Ê", "ê">>, <<"Ë", "ë">>, <<"Ì", "ì">>, <<"Í", "í">>,
     <<"Î", "î">>, <<"Ï", "ï">>, <<"Ð", "ð">>, <<"Ñ", "ñ">>,
     <<"Ò", "ò">>, <<"Ó", "ó">>, <<"Ô", "ô">>, <<"Õ", "õ">>,
     <<"Ö", "ö">>, <<"Ø", "ø">>, <<"Ù", "ù">>, <<"Ú", "ú">>,
     <<"Û", "û">>, <<"Ü", "ü">>, <<"Ý", "ý">>, <<"Þ", "þ">>,
     <<"Ɓ", "U+0253">>, <<"Ƃ", "ƃ">>, <<"Ƅ", "ƅ">>, <<"Ɔ", "U+0254">>,
     <<"Ƈ", "ƈ">>, <<"Ɖ", "U+0256">>, <<"Ɗ", "U+0257">>, <<"Ƌ", "ƌ">>,
     <<"Ǝ", "ǝ">>, <<"Ə", "U+0259">>, <<"Ɛ", "U+025B">>, <<"Ƒ", "ƒ">>,
     <<"Ɠ", "U+0260">>, <<"Ɣ", "U+0263">>, <<"Ɩ", "U+0269">>, <<"Ɨ", "U+0268">>,
     <<"Ƙ", "ƙ">>, <<"Ɯ", "U+026F">>, <<"Ɲ", "U+0272">>, <<"Ɵ", "U+0275">>,
     <<"Ơ", "ơ">>, <<"Ƣ", "ƣ">>, <<"Ƥ", "ƥ">>, <<"Ʀ", "ʀ">>,
     <<"Ƨ", "ƨ">>, <<"Ʃ", "ʃ">>, <<"Ƭ", "ƭ">>, <<"Ʈ", "ʈ">>,
     <<"Ư", "ư">>, <<"Ʊ", "ʊ">>, <<"Ʋ", "ʋ">>, <<"Ƴ", "ƴ">>,
     <<"Ƶ", "ƶ">>, <<"Ʒ", "ʒ">>, <<"Ƹ", "ƹ">>, <<"Ƽ", "ƽ">>,
     <<"Ǆ", "ǆ">>, <<"ǅ", "ǆ">>, <<"Ǉ", "ǉ">>, <<"ǈ", "ǉ">>,
     <<"Ǌ", "ǌ">>, <<"ǋ", "ǌ">>, <<"Ǎ", "ǎ">>, <<"Ǐ", "ǐ">>,
     <<"Ǒ", "ǒ">>, <<"Ǔ", "ǔ">>, <<"Ǖ", "ǖ">>, <<"Ǘ", "ǘ">>,
     <<"Ǚ", "ǚ">>, <<"Ǜ", "ǜ">>, <<"Ǟ", "ǟ">>, <<"Ǡ", "ǡ">>,
     <<"Ǣ", "ǣ">>, <<"Ǥ", "ǥ">>, <<"Ǧ", "ǧ">>, <<"Ǩ", "ǩ">>,
     <<"Ǫ", "ǫ">>, <<"Ǭ", "ǭ">>, <<"Ǯ", "ǯ">>, <<"Ǳ", "ǳ">>,
     <<"ǲ", "ǳ">>, <<"Ǵ", "ǵ">>, <<"Ƕ", "ƕ">>, <<"Ƿ", "ƿ">>,
     <<"Ǹ", "ǹ">>, <<"Ǻ", "ǻ">>, <<"Ǽ", "ǽ">>, <<"Ǿ", "ǿ">>,
     <<"Ά", "ά">>, <<"Έ", "έ">>, <<"Ή", "ή">>, <<"Ί", "ί">>,
     <<"Ό", "ό">>, <<"Ύ", "ύ">>, <<"Ώ", "ώ">>, <<"Α", "α">>,
     <<"Β", "β">>, <<"Γ", "γ">>, <<"Δ", "δ">>, <<"Ε", "ε">>,
     <<"Ζ", "ζ">>, <<"Η", "η">>, <<"Θ", "θ">>, <<"Ι", "ι">>,
     <<"Κ", "κ">>, <<"Λ", "λ">>, <<"Μ", "μ">>, <<"Ν", "ν">>,
     <<"Ξ", "ξ">>, <<"Ο", "ο">>, <<"Π", "π">>, <<"Ρ", "ρ">>,
     <<"Σ", "σ">>, <<"Τ", "τ">>, <<"Υ", "υ">>, <<"Φ", "φ">>,
     <<"Χ", "χ">>, <<"Ψ", "ψ">>, <<"Ω", "ω">>, <<"Ϊ", "ϊ">>,
     <<"Ϋ", "ϋ">>, <<"Ϗ", "ϗ">>, <<"Ϙ", "ϙ">>, <<"Ϛ", "ϛ">>,
     <<"Ϝ", "ϝ">>, <<"Ϟ", "ϟ">>, <<"Ϡ", "ϡ">>, <<"Ϣ", "ϣ">>,
     <<"Ϥ", "ϥ">>, <<"Ϧ", "ϧ">>, <<"Ϩ", "ϩ">>, <<"Ϫ", "ϫ">>,
     <<"Ϭ", "ϭ">>, <<"Ϯ", "ϯ">>, <<"ϴ", "θ">>, <<"Ϸ", "ϸ">>,
     <<"Ϲ", "ϲ">>, <<"Ϻ", "ϻ">>, <<"Ͻ", "U+037B">>, <<"Ͼ", "U+037C">>,
     <<"Ͽ", "U+037D">>, <<"Ҁ", "ҁ">>, <<"Ҋ", "ҋ">>, <<"Ҍ", "ҍ">>,
     <<"Ҏ", "ҏ">>, <<"Ґ", "ґ">>, <<"Ғ", "ғ">>, <<"Ҕ", "ҕ">>,
     <<"Җ", "җ">>, <<"Ҙ", "ҙ">>, <<"Қ", "қ">>, <<"Ҝ", "ҝ">>,
     <<"Ҟ", "ҟ">>, <<"Ҡ", "ҡ">>, <<"Ң", "ң">>, <<"Ҥ", "ҥ">>,
     <<"Ҧ", "ҧ">>, <<"Ҩ", "ҩ">>, <<"Ҫ", "ҫ">>, <<"Ҭ", "ҭ">>,
     <<"Ү", "ү">>, <<"Ұ", "ұ">>, <<"Ҳ", "ҳ">>, <<"Ҵ", "ҵ">>,
     <<"Ҷ", "ҷ">>, <<"Ҹ", "ҹ">>, <<"Һ", "һ">>, <<"Ҽ", "ҽ">>,
     <<"Ҿ", "ҿ">>, <<"Ӏ", "ӏ">>, <<"Ӂ", "ӂ">>, <<"Ӄ", "ӄ">>,
     <<"Ӆ", "ӆ">>, <<"Ӈ", "ӈ">>, <<"Ӊ", "ӊ">>, <<"Ӌ", "ӌ">>,
     <<"Ӎ", "ӎ">>, <<"Ӑ", "ӑ">>, <<"Ӓ", "ӓ">>, <<"Ӕ", "ӕ">>,
     <<"Ӗ", "ӗ">>, <<"Ә", "ә">>, <<"Ӛ", "ӛ">>, <<"Ӝ", "ӝ">>,
     <<"Ӟ", "ӟ">>, <<"Ӡ", "ӡ">>, <<"Ӣ", "ӣ">>, <<"Ӥ", "ӥ">>,
     <<"Ӧ", "ӧ">>, <<"Ө", "ө">>, <<"Ӫ", "ӫ">>, <<"Ӭ", "ӭ">>,
     <<"Ӯ", "ӯ">>, <<"Ӱ", "ӱ">>, <<"Ӳ", "ӳ">>, <<"Ӵ", "ӵ">>,
     <<"Ӷ", "ӷ">>, <<"Ӹ", "ӹ">>, <<"Ӻ", "ӻ">>, <<"Ӽ", "ӽ">>,
     <<"Ӿ", "ӿ">>, <<"Ⴀ", "U+2D00">>, <<"Ⴁ", "U+2D01">>, <<"Ⴂ", "U+2D02">>,
     <<"Ⴃ", "U+2D03">>, <<"Ⴄ", "U+2D04">>, <<"Ⴅ", "U+2D05">>, <<"Ⴆ", "U+2D06">>,
     <<"Ⴇ", "U+2D07">>, <<"Ⴈ", "U+2D08">>, <<"Ⴉ", "U+2D09">>, <<"Ⴊ", "U+2D0A">>,
     <<"Ⴋ", "U+2D0B">>, <<"Ⴌ", "U+2D0C">>, <<"Ⴍ", "U+2D0D">>, <<"Ⴎ", "U+2D0E">>,
     <<"Ⴏ", "U+2D0F">>, <<"Ⴐ", "U+2D10">>, <<"Ⴑ", "U+2D11">>, <<"Ⴒ", "U+2D12">>,
     <<"Ⴓ", "U+2D13">>, <<"Ⴔ", "U+2D14">>, <<"Ⴕ", "U+2D15">>, <<"Ⴖ", "U+2D16">>,
     <<"Ⴗ", "U+2D17">>, <<"Ⴘ", "U+2D18">>, <<"Ⴙ", "U+2D19">>, <<"Ⴚ", "U+2D1A">>,
     <<"Ⴛ", "U+2D1B">>, <<"Ⴜ", "U+2D1C">>, <<"Ⴝ", "U+2D1D">>, <<"Ⴞ", "U+2D1E">>,
     <<"Ⴟ", "U+2D1F">>, <<"Ⴠ", "U+2D20">>, <<"Ⴡ", "U+2D21">>, <<"Ⴢ", "U+2D22">>,
     <<"Ⴣ", "U+2D23">>, <<"Ⴤ", "U+2D24">>, <<"Ⴥ", "U+2D25">>, <<"Ⴧ", "U+2D27">>,
     <<"Ⴭ", "U+2D2D">>, <<"Ꭰ", "U+AB70">>, <<"Ꭱ", "U+AB71">>, <<"Ꭲ", "U+AB72">>,
     <<"Ꭳ", "U+AB73">>, <<"Ꭴ", "U+AB74">>, <<"Ꭵ", "U+AB75">>, <<"Ꭶ", "U+AB76">>,
     <<"Ꭷ", "U+AB77">>, <<"Ꭸ", "U+AB78">>, <<"Ꭹ", "U+AB79">>, <<"Ꭺ", "U+AB7A">>,
     <<"Ꭻ", "U+AB7B">>, <<"Ꭼ", "U+AB7C">>, <<"Ꭽ", "U+AB7D">>, <<"Ꭾ", "U+AB7E">>,
     <<"Ꭿ", "U+AB7F">>, <<"Ꮀ", "ꮀ">>, <<"Ꮁ", "ꮁ">>, <<"Ꮂ", "ꮂ">>,
     <<"Ꮃ", "ꮃ">>, <<"Ꮄ", "ꮄ">>, <<"Ꮅ", "ꮅ">>, <<"Ꮆ", "ꮆ">>,
     <<"Ꮇ", "ꮇ">>, <<"Ꮈ", "ꮈ">>, <<"Ꮉ", "ꮉ">>, <<"Ꮊ", "ꮊ">>,
     <<"Ꮋ", "ꮋ">>, <<"Ꮌ", "ꮌ">>, <<"Ꮍ", "ꮍ">>, <<"Ꮎ", "ꮎ">>,
     <<"Ꮏ", "ꮏ">>, <<"Ꮐ", "ꮐ">>, <<"Ꮑ", "ꮑ">>, <<"Ꮒ", "ꮒ">>,
     <<"Ꮓ", "ꮓ">>, <<"Ꮔ", "ꮔ">>, <<"Ꮕ", "ꮕ">>, <<"Ꮖ", "ꮖ">>,
     <<"Ꮗ", "ꮗ">>, <<"Ꮘ", "ꮘ">>, <<"Ꮙ", "ꮙ">>, <<"Ꮚ", "ꮚ">>,
     <<"Ꮛ", "ꮛ">>, <<"Ꮜ", "ꮜ">>, <<"Ꮝ", "ꮝ">>, <<"Ꮞ", "ꮞ">>,
     <<"Ꮟ", "ꮟ">>, <<"Ꮠ", "ꮠ">>, <<"Ꮡ", "ꮡ">>, <<"Ꮢ", "ꮢ">>,
     <<"Ꮣ", "ꮣ">>, <<"Ꮤ", "ꮤ">>, <<"Ꮥ", "ꮥ">>, <<"Ꮦ", "ꮦ">>,
     <<"Ꮧ", "ꮧ">>, <<"Ꮨ", "ꮨ">>, <<"Ꮩ", "ꮩ">>, <<"Ꮪ", "ꮪ">>,
     <<"Ꮫ", "ꮫ">>, <<"Ꮬ", "ꮬ">>, <<"Ꮭ", "ꮭ">>, <<"Ꮮ", "ꮮ">>,
     <<"Ꮯ", "ꮯ">>, <<"Ꮰ", "ꮰ">>, <<"Ꮱ", "ꮱ">>, <<"Ꮲ", "ꮲ">>,
     <<"Ꮳ", "ꮳ">>, <<"Ꮴ", "ꮴ">>, <<"Ꮵ", "ꮵ">>, <<"Ꮶ", "ꮶ">>,
     <<"Ꮷ", "ꮷ">>, <<"Ꮸ", "ꮸ">>, <<"Ꮹ", "ꮹ">>, <<"Ꮺ", "ꮺ">>,
     <<"Ꮻ", "ꮻ">>, <<"Ꮼ", "ꮼ">>, <<"Ꮽ", "ꮽ">>, <<"Ꮾ", "ꮾ">>,
     <<"Ꮿ", "ꮿ">>, <<"Ᏸ", "ᏸ">>, <<"Ᏹ", "ᏹ">>, <<"Ᏺ", "ᏺ">>,
     <<"Ᏻ", "ᏻ">>, <<"Ᏼ", "ᏼ">>, <<"Ᏽ", "ᏽ">>, <<"Ა", "ა">>,
     <<"Ბ", "ბ">>, <<"Გ", "გ">>, <<"Დ", "დ">>, <<"Ე", "ე">>,
     <<"Ვ", "ვ">>, <<"Ზ", "ზ">>, <<"Თ", "თ">>, <<"Ი", "ი">>,
     <<"Კ", "კ">>, <<"Ლ", "ლ">>, <<"Მ", "მ">>, <<"Ნ", "ნ">>,
     <<"Ო", "ო">>, <<"Პ", "პ">>, <<"Ჟ", "ჟ">>, <<"Რ", "რ">>,
     <<"Ს", "ს">>, <<"Ტ", "ტ">>, <<"Უ", "უ">>, <<"Ფ", "ფ">>,
     <<"Ქ", "ქ">>, <<"Ღ", "ღ">>, <<"Ყ", "ყ">>, <<"Შ", "შ">>,
     <<"Ჩ", "ჩ">>, <<"Ც", "ც">>, <<"Ძ", "ძ">>, <<"Წ", "წ">>,
     <<"Ჭ", "ჭ">>, <<"Ხ", "ხ">>, <<"Ჯ", "ჯ">>, <<"Ჰ", "ჰ">>,
     <<"Ჱ", "ჱ">>, <<"Ჲ", "ჲ">>, <<"Ჳ", "ჳ">>, <<"Ჴ", "ჴ">>,
     <<"Ჵ", "ჵ">>, <<"Ჶ", "ჶ">>, <<"Ჷ", "ჷ">>, <<"Ჸ", "ჸ">>,
     <<"Ჹ", "ჹ">>, <<"Ჺ", "ჺ">>, <<"Ჽ", "ჽ">>, <<"Ჾ", "ჾ">>,
     <<"Ჿ", "ჿ">>, <<"Ẁ", "ẁ">>, <<"Ẃ", "ẃ">>, <<"Ẅ", "ẅ">>,
     <<"Ẇ", "ẇ">>, <<"Ẉ", "ẉ">>, <<"Ẋ", "ẋ">>, <<"Ẍ", "ẍ">>,
     <<"Ẏ", "ẏ">>, <<"Ẑ", "ẑ">>, <<"Ẓ", "ẓ">>, <<"Ẕ", "ẕ">>,
     <<"ẞ", "ß">>, <<"Ạ", "ạ">>, <<"Ả", "ả">>, <<"Ấ", "ấ">>,
     <<"Ầ", "ầ">>, <<"Ẩ", "ẩ">>, <<"Ẫ", "ẫ">>, <<"Ậ", "ậ">>,
     <<"Ắ", "ắ">>, <<"Ằ", "ằ">>, <<"Ẳ", "ẳ">>, <<"Ẵ", "ẵ">>,
     <<"Ặ", "ặ">>, <<"Ẹ", "ẹ">>, <<"Ẻ", "ẻ">>, <<"Ẽ", "ẽ">>,
     <<"Ế", "ế">>, <<"Ề", "ề">>, <<"Ể", "ể">>, <<"Ễ", "ễ">>,
     <<"Ệ", "ệ">>, <<"Ỉ", "ỉ">>, <<"Ị", "ị">>, <<"Ọ", "ọ">>,
     <<"Ỏ", "ỏ">>, <<"Ố", "ố">>, <<"Ồ", "ồ">>, <<"Ổ", "ổ">>,
     <<"Ỗ", "ỗ">>, <<"Ộ", "ộ">>, <<"Ớ", "ớ">>, <<"Ờ", "ờ">>,
     <<"Ở", "ở">>, <<"Ỡ", "ỡ">>, <<"Ợ", "ợ">>, <<"Ụ", "ụ">>,
     <<"Ủ", "ủ">>, <<"Ứ", "ứ">>, <<"Ừ", "ừ">>, <<"Ử", "ử">>,
     <<"Ữ", "ữ">>, <<"Ự", "ự">>, <<"Ỳ", "ỳ">>, <<"Ỵ", "ỵ">>,
     <<"Ỷ", "ỷ">>, <<"Ỹ", "ỹ">>, <<"Ỻ", "ỻ">>, <<"Ỽ", "ỽ">>,
     <<"Ỿ", "ỿ">>, <<"ᾈ", "ᾀ">>, <<"ᾉ", "ᾁ">>, <<"ᾊ", "ᾂ">>,
     <<"ᾋ", "ᾃ">>, <<"ᾌ", "ᾄ">>, <<"ᾍ", "ᾅ">>, <<"ᾎ", "ᾆ">>,
     <<"ᾏ", "ᾇ">>, <<"ᾘ", "ᾐ">>, <<"ᾙ", "ᾑ">>, <<"ᾚ", "ᾒ">>,
     <<"ᾛ", "ᾓ">>, <<"ᾜ", "ᾔ">>, <<"ᾝ", "ᾕ">>, <<"ᾞ", "ᾖ">>,
     <<"ᾟ", "ᾗ">>, <<"ᾨ", "ᾠ">>, <<"ᾩ", "ᾡ">>, <<"ᾪ", "ᾢ">>,
     <<"ᾫ", "ᾣ">>, <<"ᾬ", "ᾤ">>, <<"ᾭ", "ᾥ">>, <<"ᾮ", "ᾦ">>,
     <<"ᾯ", "ᾧ">>, <<"Ᾰ", "ᾰ">>, <<"Ᾱ", "ᾱ">>, <<"Ὰ", "U+1F70">>,
     <<"Ά", "U+1F71">>, <<"ᾼ", "ᾳ">>, <<"Ὲ", "U+1F72">>, <<"Έ", "U+1F73">>,
     <<"Ὴ", "U+1F74">>, <<"Ή", "U+1F75">>, <<"ῌ", "ῃ">>, <<"Ῐ", "ῐ">>,
     <<"Ῑ", "ῑ">>, <<"Ὶ", "U+1F76">>, <<"Ί", "U+1F77">>, <<"Ῠ", "ῠ">>,
     <<"Ῡ", "ῡ">>, <<"Ὺ", "U+1F7A">>, <<"Ύ", "U+1F7B">>, <<"Ῥ", "ῥ">>,
     <<"Ὸ", "U+1F78">>, <<"Ό", "U+1F79">>, <<"Ὼ", "U+1F7C">>, <<"Ώ", "U+1F7D">>,
     <<"ῼ", "ῳ">>, <<"Ↄ", "ↄ">>, <<"Ⓐ", "ⓐ">>, <<"Ⓑ", "ⓑ">>,
     <<"Ⓒ", "ⓒ">>, <<"Ⓓ", "ⓓ">>, <<"Ⓔ", "ⓔ">>, <<"Ⓕ", "ⓕ">>,
     <<"Ⓖ", "ⓖ">>, <<"Ⓗ", "ⓗ">>, <<"Ⓘ", "ⓘ">>, <<"Ⓙ", "ⓙ">>,
     <<"Ⓚ", "ⓚ">>, <<"Ⓛ", "ⓛ">>, <<"Ⓜ", "ⓜ">>, <<"Ⓝ", "ⓝ">>,
     <<"Ⓞ", "ⓞ">>, <<"Ⓟ", "ⓟ">>, <<"Ⓠ", "ⓠ">>, <<"Ⓡ", "ⓡ">>,
     <<"Ⓢ", "ⓢ">>, <<"Ⓣ", "ⓣ">>, <<"Ⓤ", "ⓤ">>, <<"Ⓥ", "ⓥ">>,
     <<"Ⓦ", "ⓦ">>, <<"Ⓧ", "ⓧ">>, <<"Ⓨ", "ⓨ">>, <<"Ⓩ", "ⓩ">>,
     <<"Ⲁ", "ⲁ">>, <<"Ⲃ", "ⲃ">>, <<"Ⲅ", "ⲅ">>, <<"Ⲇ", "ⲇ">>,
     <<"Ⲉ", "ⲉ">>, <<"Ⲋ", "ⲋ">>, <<"Ⲍ", "ⲍ">>, <<"Ⲏ", "ⲏ">>,
     <<"Ⲑ", "ⲑ">>, <<"Ⲓ", "ⲓ">>, <<"Ⲕ", "ⲕ">>, <<"Ⲗ", "ⲗ">>,
     <<"Ⲙ", "ⲙ">>, <<"Ⲛ", "ⲛ">>, <<"Ⲝ", "ⲝ">>, <<"Ⲟ", "ⲟ">>,
     <<"Ⲡ", "ⲡ">>, <<"Ⲣ", "ⲣ">>, <<"Ⲥ", "ⲥ">>, <<"Ⲧ", "ⲧ">>,
     <<"Ⲩ", "ⲩ">>, <<"Ⲫ", "ⲫ">>, <<"Ⲭ", "ⲭ">>, <<"Ⲯ", "ⲯ">>,
     <<"Ⲱ", "ⲱ">>, <<"Ⲳ", "ⲳ">>, <<"Ⲵ", "ⲵ">>, <<"Ⲷ", "ⲷ">>,
     <<"Ⲹ", "ⲹ">>, <<"Ⲻ", "ⲻ">>, <<"Ⲽ", "ⲽ">>, <<"Ⲿ", "ⲿ">>,
     <<"Ⳁ", "ⳁ">>, <<"Ⳃ", "ⳃ">>, <<"Ⳅ", "ⳅ">>, <<"Ⳇ", "ⳇ">>,
     <<"Ⳉ", "ⳉ">>, <<"Ⳋ", "ⳋ">>, <<"Ⳍ", "ⳍ">>, <<"Ⳏ", "ⳏ">>,
     <<"Ⳑ", "ⳑ">>, <<"Ⳓ", "ⳓ">>, <<"Ⳕ", "ⳕ">>, <<"Ⳗ", "ⳗ">>,
     <<"Ⳙ", "ⳙ">>, <<"Ⳛ", "ⳛ">>, <<"Ⳝ", "ⳝ">>, <<"Ⳟ", "ⳟ">>,
     <<"Ⳡ", "ⳡ">>, <<"Ⳣ", "ⳣ">>, <<"Ⳬ", "ⳬ">>, <<"Ⳮ", "ⳮ">>,
     <<"Ⳳ", "ⳳ">>, <<"Ꚁ", "ꚁ">>, <<"Ꚃ", "ꚃ">>, <<"Ꚅ", "ꚅ">>,
     <<"Ꚇ", "ꚇ">>, <<"Ꚉ", "ꚉ">>, <<"Ꚋ", "ꚋ">>, <<"Ꚍ", "ꚍ">>,
     <<"Ꚏ", "ꚏ">>, <<"Ꚑ", "ꚑ">>, <<"Ꚓ", "ꚓ">>, <<"Ꚕ", "ꚕ">>,
     <<"Ꚗ", "ꚗ">>, <<"Ꚙ", "ꚙ">>, <<"Ꚛ", "ꚛ">>, <<"Ꞁ", "ꞁ">>,
     <<"Ꞃ", "ꞃ">>, <<"Ꞅ", "ꞅ">>, <<"Ꞇ", "ꞇ">>, <<"Ꞌ", "ꞌ">>,
     <<"Ɥ", "U+0265">>, <<"Ꞑ", "ꞑ">>, <<"Ꞓ", "ꞓ">>, <<"Ꞗ", "ꞗ">>,
     <<"Ꞙ", "ꞙ">>, <<"Ꞛ", "ꞛ">>, <<"Ꞝ", "ꞝ">>, <<"Ꞟ", "ꞟ">>,
     <<"Ꞡ", "ꞡ">>, <<"Ꞣ", "ꞣ">>, <<"Ꞥ", "ꞥ">>, <<"Ꞧ", "ꞧ">>,
     <<"Ꞩ", "ꞩ">>, <<"Ɦ", "U+0266">>, <<"Ɜ", "U+025C">>, <<"Ɡ", "U+0261">>,
     <<"Ɬ", "U+026C">>, <<"Ɪ", "U+026A">>, <<"Ʞ", "ʞ">>, <<"Ʇ", "ʇ">>,
     <<"Ʝ", "ʝ">>, <<"Ꭓ", "U+AB53">>, <<"Ꞵ", "ꞵ">>, <<"Ꞷ", "ꞷ">>,
     <<"Ꞹ", "ꞹ">>, <<"Ꞻ", "ꞻ">>, <<"Ꞽ", "ꞽ">>, <<"Ꞿ", "ꞿ">>,
     <<"Ꟁ", "ꟁ">>, <<"Ꟃ", "ꟃ">>, <<"Ꞔ", "ꞔ">>, <<"Ʂ", "ʂ">>,
     <<"Ᶎ", "ᶎ">>, <<"Ꟈ", "ꟈ">>, <<"Ꟊ", "ꟊ">>, <<"Ꟑ", "ꟑ">>,
     <<"Ꟗ", "ꟗ">>, <<"Ꟙ", "ꟙ">>, <<"Ꟶ", "ꟶ">>}

LowerMap ==
    [c \in {p[1] : p \in LowerPairs} |-> (CHOOSE p \in LowerPairs : p[1] = c)[2]]

LowerChar(c) == IF c \in DOMAIN LowerMap THEN LowerMap[c] ELSE c

\* the characters str.lower() passes over when it looks for the letters
\* around a capital sigma (the Case_Ignorable property), and the cased
\* letters (the Cased property), among the characters of the pairs above
\* and the characters a TLA+ string can be written with
CaseIgnorable ==
    {"'", ".", ":", "^", GRAVE, "¨", "­", "¯", "´", "·", "¸", "ʰ",
     "ʱ", "ʲ", "ʳ", "ʴ", "ʵ", "ʶ", "ʷ", "ʸ", "ʹ", "ʺ", "ʻ", "ʼ",
     "ʽ", "ʾ", "ʿ", "ˀ", "ˁ", "˂", "˃", "˄", "˅", "ˆ", "ˇ", "ˈ",
     "ˉ", "ˊ", "ˋ", "ˌ", "ˍ", "ˎ", "ˏ", "ː", "ˑ", "˒", "˓", "˔",
     "˕", "˖", "˗", "˘", "˙", "˚", "˛", "˜", "˝", "˞", "˟", "ˠ",
     "ˡ", "ˢ", "ˣ", "ˤ", "˥", "˦", "˧", "˨", "˩", "˪", "˫", "ˬ",
     "˭", "ˮ", "˯", "˰", "˱", "˲", "˳", "˴", "˵", "˶", "˷", "˸",
     "˹", "˺", "˻", "˼", "˽", "˾", "˿", "΄", "΅", "·", "҃", "҄",
     "҅", "҆", "҇", "҈", "҉", "֑", "֒", "֓", "֔", "֕", "֖", "֗",
     "֘", "֙", "֚", "֛", "֜", "֝", "֞", "֟", "֠", "֡", "֢", "֣",
     "֤", "֥", "֦", "֧", "֨", "֩", "֪", "֫", "֬", "֭", "֮", "֯",
     "ְ", "ֱ", "ֲ", "ֳ", "ִ", "ֵ", "ֶ", "ַ", "ָ", "ֹ", "ֺ", "ֻ",
     "ּ", "ֽ", "ֿ", "ׁ", "ׂ", "ׄ", "ׅ", "ׇ", "״", "ۖ", "ۗ", "ۘ",
     "ۙ", "ۚ", "ۛ", "ۜ", "۝", "۟", "۠", "ۡ", "ۢ", "ۣ", "ۤ", "ۥ",
     "ۦ", "ۧ", "ۨ", "۪", "۫", "۬", "ۭ", "ަ", "ާ", "ި", "ީ", "ު",
     "ޫ", "ެ", "ޭ", "ޮ", "ޯ", "ް", "߫", "߬", "߭", "߮", "߯", "߰",
     "߱", "߲", "߳", "ߴ", "ߵ", "ߺ", "߽", "࢈", "࢐", "࢑", "࢘", "࢙",
     "࢚", "࢛", "࢜", "࢝", "࢞", "࢟", "ࣉ", "࣊", "࣋", "࣌", "࣍", "࣎",
     "࣏", "࣐", "࣑", "࣒", "࣓", "ࣔ", "ࣕ", "ࣖ", "ࣗ", "ࣘ", "ࣙ", "ࣚ",
     "ࣛ", "ࣜ", "ࣝ", "ࣞ", "ࣟ", "࣠", "࣡", "࣢", "ࣣ", "ࣤ", "ࣥ", "ࣦ",
     "ࣧ", "ࣨ", "ࣩ", "࣪", "࣫", "࣬", "࣭", "࣮", "࣯", "ࣰ", "ࣱ", "ࣲ",
     "ࣳ", "ࣴ", "ࣵ", "ࣶ", "ࣷ", "ࣸ", "ࣹ", "ࣺ", "ࣻ", "ࣼ", "ࣽ", "ࣾ",
     "ࣿ", "ঁ", "়", "ু", "ূ", "ৃ", "ৄ", "্", "ৢ", "ৣ", "৾", "ઁ",
     "ં", "઼", "ુ", "ૂ", "ૃ", "ૄ", "ૅ", "ે", "ૈ", "્", "ૢ", "ૣ",
     "ૺ", "ૻ", "ૼ", "૽", "૾", "૿", "ஂ", "ீ", "்", "ಁ", "಼", "ಿ",
     "ೆ", "ೌ", "್", "ೢ", "ೣ", "ඁ", "්", "ි", "ී", "ු", "ූ", "ັ",
     "ິ", "ີ", "ຶ", "ື", "ຸ", "ູ", "຺", "ົ", "ຼ", "ໆ", "່", "້",
     "໊", "໋", "໌", "ໍ", "ྀ", "ཱྀ", "ྂ", "ྃ", "྄", "྆", "྇", "ྍ",
     "ྎ", "ྏ", "ྐ", "ྑ", "ྒ", "ྒྷ", "ྔ", "ྕ", "ྖ", "ྗ", "ྙ", "ྚ",
     "ྛ", "ྜ", "ྜྷ", "ྞ", "ྟ", "ྠ", "ྡ", "ྡྷ", "ྣ", "ྤ", "ྥ", "ྦ",
     "ྦྷ", "ྨ", "ྩ", "ྪ", "ྫ", "ྫྷ", "ྭ", "ྮ", "ྯ", "ྰ", "ྱ", "ྲ",
     "ླ", "ྴ", "ྵ", "ྶ", "ྷ", "ྸ", "ྐྵ", "ྺ", "ྻ", "ྼ", "࿆", "ႂ",
     "ႅ", "ႆ", "ႍ", "ႝ", "ჼ", "឴", "឵", "ិ", "ី", "ឹ", "ឺ", "ុ",
     "ូ", "ួ", "ំ", "៉", "៊", "់", "៌", "៍", "៎", "៏", "័", "៑",
     "្", "៓", "ៗ", "៝", "ᢅ", "ᢆ", "ᢩ", "ᪧ", "᪰", "᪱", "᪲", "᪳",
     "᪴", "᪵", "᪶", "᪷", "᪸", "᪹", "᪺", "᪻", "᪼", "᪽", "᪾", "ᪿ",
     "ᫀ", "᫁", "᫂", "᫃", "᫄", "᫅", "᫆", "᫇", "᫈", "᫉", "᫊", "᫋",
     "ᫌ", "ᫍ", "ᫎ", "ᮀ", "ᮁ", "ᮢ", "ᮣ", "ᮤ", "ᮥ", "ᮨ", "ᮩ", "᮫",
     "ᮬ", "ᮭ", "᯦", "ᯨ", "ᯩ", "ᯭ", "ᯯ", "ᯰ", "ᯱ", "᳐", "᳑", "᳒",
     "᳔", "᳕", "᳖", "᳗", "᳘", "᳙", "᳚", "᳛", "᳜", "᳝", "᳞", "᳟",
     "᳠", "᳢", "᳣", "᳤", "᳥", "᳦", "᳧", "᳨", "᳭", "᳴", "᳸", "᳹",
     "ᶛ", "ᶜ", "ᶝ", "ᶞ", "ᶟ", "ᶠ", "ᶡ", "ᶢ", "ᶣ", "ᶤ", "ᶥ", "ᶦ",
     "ᶧ", "ᶨ", "ᶩ", "ᶪ", "ᶫ", "ᶬ", "ᶭ", "ᶮ", "ᶯ", "ᶰ", "ᶱ", "ᶲ",
     "ᶳ", "ᶴ", "ᶵ", "ᶶ", "ᶷ", "ᶸ", "ᶹ", "ᶺ", "ᶻ", "ᶼ", "ᶽ", "ᶾ",
     "ᶿ", "᷀", "᷁", "᷂", "᷃", "᷄", "᷅", "᷆", "᷇", "᷈", "᷉", "᷊",
     "᷋", "᷌", "᷍", "᷎", "᷏", "᷐", "᷑", "᷒", "ᷓ", "ᷔ", "ᷕ", "ᷖ",
     "ᷗ", "ᷘ", "ᷙ", "ᷚ", "ᷛ", "ᷜ", "ᷝ", "ᷞ", "ᷟ", "ᷠ", "ᷡ", "ᷢ",
     "ᷣ", "ᷤ", "ᷥ", "ᷦ", "ᷧ", "ᷨ", "ᷩ", "ᷪ", "ᷫ", "ᷬ", "ᷭ", "ᷮ",
     "ᷯ", "ᷰ", "ᷱ", "ᷲ", "ᷳ", "ᷴ", "᷵", "᷶", "᷷", "᷸", "᷹", "᷺",
     "᷻", "᷼", "᷽", "᷾", "᷿", "᾽", "᾿", "῀", "῁", "῍", "῎", "῏",
     "῝", "῞", "῟", "῭", "΅", "`", "´", "῾", "ₐ", "ₑ", "ₒ", "ₓ",
     "ₔ", "ₕ", "ₖ", "ₗ", "ₘ", "ₙ", "ₚ", "ₛ", "ₜ", "⃐", "⃑", "⃒",
     "⃓", "⃔", "⃕", "⃖", "⃗", "⃘", "⃙", "⃚", "⃛", "⃜", "⃝", "⃞",
     "⃟", "⃠", "⃡", "⃢", "⃣", "⃤", "⃥", "⃦", "⃧", "⃨", "⃩", "⃪",
     "⃫", "⃬", "⃭", "⃮", "⃯", "⃰", "⳯", "⳰", "⳱", "ⷠ", "ⷡ", "ⷢ",
     "ⷣ", "ⷤ", "ⷥ", "ⷦ", "ⷧ", "ⷨ", "ⷩ", "ⷪ", "ⷫ", "ⷬ", "ⷭ", "ⷮ",
     "ⷯ", "ⷰ", "ⷱ", "ⷲ", "ⷳ", "ⷴ", "ⷵ", "ⷶ", "ⷷ", "ⷸ", "ⷹ", "ⷺ",
     "ⷻ", "ⷼ", "ⷽ", "ⷾ", "ⷿ", "゙", "゚", "゛", "゜", "ゝ", "ゞ", "ー",
     "ヽ", "ヾ", "ꓸ", "ꓹ", "ꓺ", "ꓻ", "ꓼ", "ꓽ", "ꚜ", "ꚝ", "ꚞ", "ꚟ",
     "꛰", "꛱", "ꞈ", "꞉", "꞊", "ꟲ", "ꟳ", "ꟴ", "ꟸ", "ꟹ", "꣄", "ꣅ",
     "꣠", "꣡", "꣢", "꣣", "꣤", "꣥", "꣦", "꣧", "꣨", "꣩", "꣪", "꣫",
     "꣬", "꣭", "꣮", "꣯", "꣰", "꣱", "ꣿ", "ꦀ", "ꦁ", "ꦂ", "꦳", "ꦶ",
     "ꦷ", "ꦸ", "ꦹ", "ꦼ", "ꦽ", "ꧏ", "ꧥ", "ꧦ", "ꪰ", "ꪲ", "ꪳ", "ꪴ",
     "ꪷ", "ꪸ", "ꪾ", "꪿", "꫁", "ꫝ", "ꫬ", "ꫭ", "ꫳ", "ꫴ", "꫶", "ꯥ",
     "ꯨ", "꯭", "﮲", "﮳", "﮴", "﮵", "﮶", "﮷", "﮸", "﮹", "﮺", "﮻",
     "﮼", "﮽", "﮾", "﮿", "﯀", "﯁", "﯂", "﻿", "ﾞ", "ﾟ", "￣", "￹",
     "￺", "￻"}

Cased ==
    {"A", "B", "C", "D", "E", "F", "G", "H", "I", "J", "K", "L",
     "M", "N", "O", "P", "Q", "R", "S", "T", "U", "V", "W", "X",
     "Y", "Z", "a", "b", "c", "d", "e", "f", "g", "h", "i", "j",
     "k", "l", "m", "n", "o", "p", "q", "r", "s", "t", "u", "v",
     "w", "x", "y", "z", "ª", "µ", "º", "À", "Á", "Â", "Ã", "Ä",
     "Å", "Æ", "Ç", "È", "É", "Ê", "Ë", "Ì", "Í", "Î", "Ï", "Ð",
     "Ñ", "Ò", "Ó", "Ô", "Õ", "Ö", "Ø", "Ù", "Ú", "Û", "Ü", "Ý",
     "Þ", "ß", "à", "á", "â", "ã", "ä", "å", "æ", "ç", "è", "é",
     "ê", "ë", "ì", "í", "î", "ï", "ð", "ñ", "ò", "ó", "ô", "õ",
     "ö", "ø", "ù", "ú", "û", "ü", "ý", "þ", "ÿ", "ƀ", "Ɓ", "Ƃ",
     "ƃ", "Ƅ", "ƅ", "Ɔ", "Ƈ", "ƈ", "Ɖ", "Ɗ", "Ƌ", "ƌ", "ƍ", "Ǝ",
     "Ə", "Ɛ", "Ƒ", "ƒ", "Ɠ", "Ɣ", "ƕ", "Ɩ", "Ɨ", "Ƙ", "ƙ", "ƚ",
     "ƛ", "Ɯ", "Ɲ", "ƞ", "Ɵ", "Ơ", "ơ", "Ƣ", "ƣ", "Ƥ", "ƥ", "Ʀ",
     "Ƨ", "ƨ", "Ʃ", "ƪ", "ƫ", "Ƭ", "ƭ", "Ʈ", "Ư", "ư", "Ʊ", "Ʋ",
     "Ƴ", "ƴ", "Ƶ", "ƶ", "Ʒ", "Ƹ", "ƹ", "ƺ", "Ƽ", "ƽ", "ƾ", "ƿ",
     "Ǆ", "ǅ", "ǆ", "Ǉ", "ǈ", "ǉ", "Ǌ", "ǋ", "ǌ", "Ǎ", "ǎ", "Ǐ",
     "ǐ", "Ǒ", "ǒ", "Ǔ", "ǔ", "Ǖ", "ǖ", "Ǘ", "ǘ", "Ǚ", "ǚ", "Ǜ",
     "ǜ", "ǝ", "Ǟ", "ǟ", "Ǡ", "ǡ", "Ǣ", "ǣ", "Ǥ", "ǥ", "Ǧ", "ǧ",
     "Ǩ", "ǩ", "Ǫ", "ǫ", "Ǭ", "ǭ", "Ǯ", "ǯ", "ǰ", "Ǳ", "ǲ", "ǳ",
     "Ǵ", "ǵ", "Ƕ", "Ƿ", "Ǹ", "ǹ", "Ǻ", "ǻ", "Ǽ", "ǽ", "Ǿ", "ǿ",
     "ʀ", "ʁ", "ʂ", "ʃ", "ʄ", "ʅ", "ʆ", "ʇ", "ʈ", "ʉ", "ʊ", "ʋ",
     "ʌ", "ʍ", "ʎ", "ʏ", "ʐ", "ʑ", "ʒ", "ʓ", "ʕ", "ʖ", "ʗ", "ʘ",
     "ʙ", "ʚ", "ʛ", "ʜ", "ʝ", "ʞ", "ʟ", "ʠ", "ʡ", "ʢ", "ʣ", "ʤ",
     "ʥ", "ʦ", "ʧ", "ʨ", "ʩ", "ʪ", "ʫ", "ʬ", "ʭ", "ʮ", "ʯ", "ʰ",
     "ʱ", "ʲ", "ʳ", "ʴ", "ʵ", "ʶ", "ʷ", "ʸ", "ˀ", "ˁ", "ˠ", "ˡ",
     "ˢ", "ˣ", "ˤ", "Ά", "Έ", "Ή", "Ί", "Ό", "Ύ", "Ώ", "ΐ", "Α",
     "Β", "Γ", "Δ", "Ε", "Ζ", "Η", "Θ", "Ι", "Κ", "Λ", "Μ", "Ν",
     "Ξ", "Ο", "Π", "Ρ", "Σ", "Τ", "Υ", "Φ", "Χ", "Ψ", "Ω", "Ϊ",
     "Ϋ", "ά", "έ", "ή", "ί", "ΰ", "α", "β", "γ", "δ", "ε", "ζ",
     "η", "θ", "ι", "κ", "λ", "μ", "ν", "ξ", "ο", "π", "ρ", "ς",
     "σ", "τ", "υ", "φ", "χ", "ψ", "ω", "ϊ", "ϋ", "ό", "ύ", "ώ",
     "Ϗ", "ϐ", "ϑ", "ϒ", "ϓ", "ϔ", "ϕ", "ϖ", "ϗ", "Ϙ", "ϙ", "Ϛ",
     "ϛ", "Ϝ", "ϝ", "Ϟ", "ϟ", "Ϡ", "ϡ", "Ϣ", "ϣ", "Ϥ", "ϥ", "Ϧ",
     "ϧ", "Ϩ", "ϩ", "Ϫ", "ϫ", "Ϭ", "ϭ", "Ϯ", "ϯ", "ϰ", "ϱ", "ϲ",
     "ϳ", "ϴ", "ϵ", "Ϸ", "ϸ", "Ϲ", "Ϻ", "ϻ", "ϼ", "Ͻ", "Ͼ", "Ͽ",
     "Ҁ", "ҁ", "Ҋ", "ҋ", "Ҍ", "ҍ", "Ҏ", "ҏ", "Ґ", "ґ", "Ғ", "ғ",
     "Ҕ", "ҕ", "Җ", "җ", "Ҙ", "ҙ", "Қ", "қ", "Ҝ", "ҝ", "Ҟ", "ҟ",
     "Ҡ", "ҡ", "Ң", "ң", "Ҥ", "ҥ", "Ҧ", "ҧ", "Ҩ", "ҩ", "Ҫ", "ҫ",
     "Ҭ", "ҭ", "Ү", "ү", "Ұ", "ұ", "Ҳ", "ҳ", "Ҵ", "ҵ", "Ҷ", "ҷ",
     "Ҹ", "ҹ", "Һ", "һ", "Ҽ", "ҽ", "Ҿ", "ҿ", "Ӏ", "Ӂ", "ӂ", "Ӄ",
     "ӄ", "Ӆ", "ӆ", "Ӈ", "ӈ", "Ӊ", "ӊ", "Ӌ", "ӌ", "Ӎ", "ӎ", "ӏ",
     "Ӑ", "ӑ", "Ӓ", "ӓ", "Ӕ", "ӕ", "Ӗ", "ӗ", "Ә", "ә", "Ӛ", "ӛ",
     "Ӝ", "ӝ", "Ӟ", "ӟ", "Ӡ", "ӡ", "Ӣ", "ӣ", "Ӥ", "ӥ", "Ӧ", "ӧ",
     "Ө", "ө", "Ӫ", "ӫ", "Ӭ", "ӭ", "Ӯ", "ӯ", "Ӱ", "ӱ", "Ӳ", "ӳ",
     "Ӵ", "ӵ", "Ӷ", "ӷ", "Ӹ", "ӹ", "Ӻ", "ӻ", "Ӽ", "ӽ", "Ӿ", "ӿ",
     "ր", "ց", "ւ", "փ", "ք", "օ", "ֆ", "և", "ֈ", "Ⴀ", "Ⴁ", "Ⴂ",
     "Ⴃ", "Ⴄ", "Ⴅ", "Ⴆ", "Ⴇ", "Ⴈ", "Ⴉ", "Ⴊ", "Ⴋ", "Ⴌ", "Ⴍ", "Ⴎ",
     "Ⴏ", "Ⴐ", "Ⴑ", "Ⴒ", "Ⴓ", "Ⴔ", "Ⴕ", "Ⴖ", "Ⴗ", "Ⴘ", "Ⴙ", "Ⴚ",
     "Ⴛ", "Ⴜ", "Ⴝ", "Ⴞ", "Ⴟ", "Ⴠ", "Ⴡ", "Ⴢ", "Ⴣ", "Ⴤ", "Ⴥ", "Ⴧ",
     "Ⴭ", "ა", "ბ", "გ", "დ", "ე", "ვ", "ზ", "თ", "ი", "კ", "ლ",
     "მ", "ნ", "ო", "პ", "ჟ", "რ", "ს", "ტ", "უ", "ფ", "ქ", "ღ",
     "ყ", "შ", "ჩ", "ც", "ძ", "წ", "ჭ", "ხ", "ჯ", "ჰ", "ჱ", "ჲ",
     "ჳ", "ჴ", "ჵ", "ჶ", "ჷ", "ჸ", "ჹ", "ჺ", "ჽ", "ჾ", "ჿ", "Ꭰ",
     "Ꭱ", "Ꭲ", "Ꭳ", "Ꭴ", "Ꭵ", "Ꭶ", "Ꭷ", "Ꭸ", "Ꭹ", "Ꭺ", "Ꭻ", "Ꭼ",
     "Ꭽ", "Ꭾ", "Ꭿ", "Ꮀ", "Ꮁ", "Ꮂ", "Ꮃ", "Ꮄ", "Ꮅ", "Ꮆ", "Ꮇ", "Ꮈ",
     "Ꮉ", "Ꮊ", "Ꮋ", "Ꮌ", "Ꮍ", "Ꮎ", "Ꮏ", "Ꮐ", "Ꮑ", "Ꮒ", "Ꮓ", "Ꮔ",
     "Ꮕ", "Ꮖ", "Ꮗ", "Ꮘ", "Ꮙ", "Ꮚ", "Ꮛ", "Ꮜ", "Ꮝ", "Ꮞ", "Ꮟ", "Ꮠ",
     "Ꮡ", "Ꮢ", "Ꮣ", "Ꮤ", "Ꮥ", "Ꮦ", "Ꮧ", "Ꮨ", "Ꮩ", "Ꮪ", "Ꮫ", "Ꮬ",
     "Ꮭ", "Ꮮ", "Ꮯ", "Ꮰ", "Ꮱ", "Ꮲ", "Ꮳ", "Ꮴ", "Ꮵ", "Ꮶ", "Ꮷ", "Ꮸ",
     "Ꮹ", "Ꮺ", "Ꮻ", "Ꮼ", "Ꮽ", "Ꮾ", "Ꮿ", "Ᏸ", "Ᏹ", "Ᏺ", "Ᏻ", "Ᏼ",
     "Ᏽ", "ᏸ", "ᏹ", "ᏺ", "ᏻ", "ᏼ", "ᏽ", "ᲀ", "ᲁ", "ᲂ", "ᲃ", "ᲄ",
     "ᲅ", "ᲆ", "ᲇ", "ᲈ", "Ა", "Ბ", "Გ", "Დ", "Ე", "Ვ", "Ზ", "Თ",
     "Ი", "Კ", "Ლ", "Მ", "Ნ", "Ო", "Პ", "Ჟ", "Რ", "Ს", "Ტ", "Უ",
     "Ფ", "Ქ", "Ღ", "Ყ", "Შ", "Ჩ", "Ც", "Ძ", "Წ", "Ჭ", "Ხ", "Ჯ",
     "Ჰ", "Ჱ", "Ჲ", "Ჳ", "Ჴ", "Ჵ", "Ჶ", "Ჷ", "Ჸ", "Ჹ", "Ჺ", "Ჽ",
     "Ჾ", "Ჿ", "ᶀ", "ᶁ", "ᶂ", "ᶃ", "ᶄ", "ᶅ", "ᶆ", "ᶇ", "ᶈ", "ᶉ",
     "ᶊ", "ᶋ", "ᶌ", "ᶍ", "ᶎ", "ᶏ", "ᶐ", "ᶑ", "ᶒ", "ᶓ", "ᶔ", "ᶕ",
     "ᶖ", "ᶗ", "ᶘ", "ᶙ", "ᶚ", "ᶛ", "ᶜ", "ᶝ", "ᶞ", "ᶟ", "ᶠ", "ᶡ",
     "ᶢ", "ᶣ", "ᶤ", "ᶥ", "ᶦ", "ᶧ", "ᶨ", "ᶩ", "ᶪ", "ᶫ", "ᶬ", "ᶭ",
     "ᶮ", "ᶯ", "ᶰ", "ᶱ", "ᶲ", "ᶳ", "ᶴ", "ᶵ", "ᶶ", "ᶷ", "ᶸ", "ᶹ",
     "ᶺ", "ᶻ", "ᶼ", "ᶽ", "ᶾ", "ᶿ", "Ẁ", "ẁ", "Ẃ", "ẃ", "Ẅ", "ẅ",
     "Ẇ", "ẇ", "Ẉ", "ẉ", "Ẋ", "ẋ", "Ẍ", "ẍ", "Ẏ", "ẏ", "Ẑ", "ẑ",
     "Ẓ", "ẓ", "Ẕ", "ẕ", "ẖ", "ẗ", "ẘ", "ẙ", "ẚ", "ẛ", "ẜ", "ẝ",
     "ẞ", "ẟ", "Ạ", "ạ", "Ả", "ả", "Ấ", "ấ", "Ầ", "ầ", "Ẩ", "ẩ",
     "Ẫ", "ẫ", "Ậ", "ậ", "Ắ", "ắ", "Ằ", "ằ", "Ẳ", "ẳ", "Ẵ", "ẵ",
     "Ặ", "ặ", "Ẹ", "ẹ", "Ẻ", "ẻ", "Ẽ", "ẽ", "Ế", "ế", "Ề", "ề",
     "Ể", "ể", "Ễ", "ễ", "Ệ", "ệ", "Ỉ", "ỉ", "Ị", "ị", "Ọ", "ọ",
     "Ỏ", "ỏ", "Ố", "ố", "Ồ", "ồ", "Ổ", "ổ", "Ỗ", "ỗ", "Ộ", "ộ",
     "Ớ", "ớ", "Ờ", "ờ", "Ở", "ở", "Ỡ", "ỡ", "Ợ", "ợ", "Ụ", "ụ",
     "Ủ", "ủ", "Ứ", "ứ", "Ừ", "ừ", "Ử", "ử", "Ữ", "ữ", "Ự", "ự",
     "Ỳ", "ỳ", "Ỵ", "ỵ", "Ỷ", "ỷ", "Ỹ", "ỹ", "Ỻ", "ỻ", "Ỽ", "ỽ",
     "Ỿ", "ỿ", "ᾀ", "ᾁ", "ᾂ", "ᾃ", "ᾄ", "ᾅ", "ᾆ", "ᾇ", "ᾈ", "ᾉ",
     "ᾊ", "ᾋ", "ᾌ", "ᾍ", "ᾎ", "ᾏ", "ᾐ", "ᾑ", "ᾒ", "ᾓ", "ᾔ", "ᾕ",
     "ᾖ", "ᾗ", "ᾘ", "ᾙ", "ᾚ", "ᾛ", "ᾜ", "ᾝ", "ᾞ", "ᾟ", "ᾠ", "ᾡ",
     "ᾢ", "ᾣ", "ᾤ", "ᾥ", "ᾦ", "ᾧ", "ᾨ", "ᾩ", "ᾪ", "ᾫ", "ᾬ", "ᾭ",
     "ᾮ", "ᾯ", "ᾰ", "ᾱ", "ᾲ", "ᾳ", "ᾴ", "ᾶ", "ᾷ", "Ᾰ", "Ᾱ", "Ὰ",
     "Ά", "ᾼ", "ι", "ῂ", "ῃ", "ῄ", "ῆ", "ῇ", "Ὲ", "Έ", "Ὴ", "Ή",
     "ῌ", "ῐ", "ῑ", "ῒ", "ΐ", "ῖ", "ῗ", "Ῐ", "Ῑ", "Ὶ", "Ί", "ῠ",
     "ῡ", "ῢ", "ΰ", "ῤ", "ῥ", "ῦ", "ῧ", "Ῠ", "Ῡ", "Ὺ", "Ύ", "Ῥ",
     "ῲ", "ῳ", "ῴ", "ῶ", "ῷ", "Ὸ", "Ό", "Ὼ", "Ώ", "ῼ", "ₐ", "ₑ",
     "ₒ", "ₓ", "ₔ", "ₕ", "ₖ", "ₗ", "ₘ", "ₙ", "ₚ", "ₛ", "ₜ", "Ↄ",
     "ↄ", "Ⓐ", "Ⓑ", "Ⓒ", "Ⓓ", "Ⓔ", "Ⓕ", "Ⓖ", "Ⓗ", "Ⓘ", "Ⓙ", "Ⓚ",
     "Ⓛ", "Ⓜ", "Ⓝ", "Ⓞ", "Ⓟ", "Ⓠ", "Ⓡ", "Ⓢ", "Ⓣ", "Ⓤ", "Ⓥ", "Ⓦ",
     "Ⓧ", "Ⓨ", "Ⓩ", "ⓐ", "ⓑ", "ⓒ", "ⓓ", "ⓔ", "ⓕ", "ⓖ", "ⓗ", "ⓘ",
     "ⓙ", "ⓚ", "ⓛ", "ⓜ", "ⓝ", "ⓞ", "ⓟ", "ⓠ", "ⓡ", "ⓢ", "ⓣ", "ⓤ",
     "ⓥ", "ⓦ", "ⓧ", "ⓨ", "ⓩ", "Ⲁ", "ⲁ", "Ⲃ", "ⲃ", "Ⲅ", "ⲅ", "Ⲇ",
     "ⲇ", "Ⲉ", "ⲉ", "Ⲋ", "ⲋ", "Ⲍ", "ⲍ", "Ⲏ", "ⲏ", "Ⲑ", "ⲑ", "Ⲓ",
     "ⲓ", "Ⲕ", "ⲕ", "Ⲗ", "ⲗ", "Ⲙ", "ⲙ", "Ⲛ", "ⲛ", "Ⲝ", "ⲝ", "Ⲟ",
     "ⲟ", "Ⲡ", "ⲡ", "Ⲣ", "ⲣ", "Ⲥ", "ⲥ", "Ⲧ", "ⲧ", "Ⲩ", "ⲩ", "Ⲫ",
     "ⲫ", "Ⲭ", "ⲭ", "Ⲯ", "ⲯ", "Ⲱ", "ⲱ", "Ⲳ", "ⲳ", "Ⲵ", "ⲵ", "Ⲷ",
     "ⲷ", "Ⲹ", "ⲹ", "Ⲻ", "ⲻ", "Ⲽ", "ⲽ", "Ⲿ", "ⲿ", "Ⳁ", "ⳁ", "Ⳃ",
     "ⳃ", "Ⳅ", "ⳅ", "Ⳇ", "ⳇ", "Ⳉ", "ⳉ", "Ⳋ", "ⳋ", "Ⳍ", "ⳍ", "Ⳏ",
     "ⳏ", "Ⳑ", "ⳑ", "Ⳓ", "ⳓ", "Ⳕ", "ⳕ", "Ⳗ", "ⳗ", "Ⳙ", "ⳙ", "Ⳛ",
     "ⳛ", "Ⳝ", "ⳝ", "Ⳟ", "ⳟ", "Ⳡ", "ⳡ", "Ⳣ", "ⳣ", "ⳤ", "Ⳬ", "ⳬ",
     "Ⳮ", "ⳮ", "Ⳳ", "ⳳ", "Ꚁ", "ꚁ", "Ꚃ", "ꚃ", "Ꚅ", "ꚅ", "Ꚇ", "ꚇ",
     "Ꚉ", "ꚉ", "Ꚋ", "ꚋ", "Ꚍ", "ꚍ", "Ꚏ", "ꚏ", "Ꚑ", "ꚑ", "Ꚓ", "ꚓ",
     "Ꚕ", "ꚕ", "Ꚗ", "ꚗ", "Ꚙ", "ꚙ", "Ꚛ", "ꚛ", "ꚜ", "ꚝ", "Ꞁ", "ꞁ",
     "Ꞃ", "ꞃ", "Ꞅ", "ꞅ", "Ꞇ", "ꞇ", "Ꞌ", "ꞌ", "Ɥ", "ꞎ", "Ꞑ", "ꞑ",
     "Ꞓ", "ꞓ", "ꞔ", "ꞕ", "Ꞗ", "ꞗ", "Ꞙ", "ꞙ", "Ꞛ", "ꞛ", "Ꞝ", "ꞝ",
     "Ꞟ", "ꞟ", "Ꞡ", "ꞡ", "Ꞣ", "ꞣ", "Ꞥ", "ꞥ", "Ꞧ", "ꞧ", "Ꞩ", "ꞩ",
     "Ɦ", "Ɜ", "Ɡ", "Ɬ", "Ɪ", "ꞯ", "Ʞ", "Ʇ", "Ʝ", "Ꭓ", "Ꞵ", "ꞵ",
     "Ꞷ", "ꞷ", "Ꞹ", "ꞹ", "Ꞻ", "ꞻ", "Ꞽ", "ꞽ", "Ꞿ", "ꞿ", "Ꟁ", "ꟁ",
     "Ꟃ", "ꟃ", "Ꞔ", "Ʂ", "Ᶎ", "Ꟈ", "ꟈ", "Ꟊ", "ꟊ", "Ꟑ", "ꟑ", "ꟓ",
     "ꟕ", "Ꟗ", "ꟗ", "Ꟙ", "ꟙ", "Ꟶ", "ꟶ", "ꟸ", "ꟹ", "ꟺ", "ꮀ", "ꮁ",
     "ꮂ", "ꮃ", "ꮄ", "ꮅ", "ꮆ", "ꮇ", "ꮈ", "ꮉ", "ꮊ", "ꮋ", "ꮌ", "ꮍ",
     "ꮎ", "ꮏ", "ꮐ", "ꮑ", "ꮒ", "ꮓ", "ꮔ", "ꮕ", "ꮖ", "ꮗ", "ꮘ", "ꮙ",
     "ꮚ", "ꮛ", "ꮜ", "ꮝ", "ꮞ", "ꮟ", "ꮠ", "ꮡ", "ꮢ", "ꮣ", "ꮤ", "ꮥ",
     "ꮦ", "ꮧ", "ꮨ", "ꮩ", "ꮪ", "ꮫ", "ꮬ", "ꮭ", "ꮮ", "ꮯ", "ꮰ", "ꮱ",
     "ꮲ", "ꮳ", "ꮴ", "ꮵ", "ꮶ", "ꮷ", "ꮸ", "ꮹ", "ꮺ", "ꮻ", "ꮼ", "ꮽ",
     "ꮾ", "ꮿ", "U+0253", "U+0254", "U+0256", "U+0257", "U+0259", "U+025B", "U+025C", "U+0260", "U+0261", "U+0263",
     "U+0265", "U+0266", "U+0268", "U+0269", "U+026A", "U+026C", "U+026F", "U+0272", "U+0275", "U+037B", "U+037C", "U+037D",
     "U+1F70", "U+1F71", "U+1F72", "U+1F73", "U+1F74", "U+1F75", "U+1F76", "U+1F77", "U+1F78", "U+1F79", "U+1F7A", "U+1F7B",
     "U+1F7C", "U+1F7D", "U+2D00", "U+2D01", "U+2D02", "U+2D03", "U+2D04", "U+2D05", "U+2D06", "U+2D07", "U+2D08", "U+2D09",
     "U+2D0A", "U+2D0B", "U+2D0C", "U+2D0D", "U+2D0E", "U+2D0F", "U+2D10", "U+2D11", "U+2D12", "U+2D13", "U+2D14", "U+2D15",
     "U+2D16", "U+2D17", "U+2D18", "U+2D19", "U+2D1A", "U+2D1B", "U+2D1C", "U+2D1D", "U+2D1E", "U+2D1F", "U+2D20", "U+2D21",
     "U+2D22", "U+2D23", "U+2D24", "U+2D25", "U+2D27", "U+2D2D", "U+AB53", "U+AB70", "U+AB71", "U+AB72", "U+AB73", "U+AB74",
     "U+AB75", "U+AB76", "U+AB77", "U+AB78", "U+AB79", "U+AB7A", "U+AB7B", "U+AB7C", "U+AB7D", "U+AB7E", "U+AB7F"}

\* the capital sigma (U+03A3), lowered to the final sigma (U+03C2) where a
\* cased letter comes before it and none after it, the case-ignorable
\* characters passed over
SIGMA == "Σ"
FINAL_SIGMA == "ς"

FinalSigma(s, i) ==
    LET before == {j \in 1..(i - 1) : s[j] \notin CaseIgnorable}
        after == {j \in (i + 1)..Len(s) : s[j] \notin CaseIgnorable}
        last == CHOOSE j \in before : \A k \in before : k <= j
        next == CHOOSE j \in after : \A k \in after : j <= k
    IN  /\ before # {}
        /\ s[last] \in Cased
        /\ after = {} \/ s[next] \notin Cased

\* str.lower()
Lower(s) ==
    [i \in 1..Len(s) |->
        IF s[i] = SIGMA /\ FinalSigma(s, i) THEN FINAL_SIGMA ELSE LowerChar(s[i])]

(***************************************************************************)
(* expression_compiler: tokens.                                            *)
(***************************************************************************)
LP == <<"(">>
RP == <<")">>

TK_AND == <<"a", "n", "d">>
TK_OR == <<"o", "r">>
TK_NOT == <<"n", "o", "t">>

\* _clear_op lowering every token, identifiers included
ClearOpLoweringAll(token) == Lower(token)

_clear_op(token) ==
    LET tl == Lower(token)
    IN  IF tl \in {TK_AND, TK_OR, TK_NOT} THEN tl ELSE token

\* The for loop of lex: i is the position of the next char, token the
\* identifier collected so far, yielded the tokens yielded so far.
RECURSIVE lex_loop(_, _, _, _)
lex_loop(s, i, token, yielded) ==
    LET flushed == IF token # <<>> THEN Append(yielded, _clear_op(token))
                   ELSE yielded
    IN  IF i > Len(s) THEN flushed
        ELSE LET char == <<s[i]>>
             IN  IF char = <<" ">> THEN lex_loop(s, i + 1, <<>>, flushed)
                 ELSE IF char = LP THEN lex_loop(s, i + 1, <<>>, Append(flushed, LP))
                 ELSE IF char = RP THEN lex_loop(s, i + 1, <<>>, Append(flushed, RP))
                 ELSE lex_loop(s, i + 1, token \o char, yielded)

\* list(lex(text))
lex(s) == lex_loop(s, 1, <<>>, <<>>)

(***************************************************************************)
(* expression_compiler: AST nodes, as their _to_tuple() form, which is     *)
(* what Node.__eq__ compares.                                              *)
(***************************************************************************)
Id(id) == <<"id", id>>
Not(n) == <<"not", n>>
And(left, right) == <<"and", left, right>>
Or(left, right) == <<"or", left, right>>

(***************************************************************************)
(* Results of calls that can raise.                                        *)
(***************************************************************************)
ExpressionSyntaxError == "ExpressionSyntaxError"
DirectiveSyntaxError == "DirectiveSyntaxError"
ValueError == "ValueError"
StopIteration == "StopIteration"

Ok(x, rest) == <<"ok", x, rest>>
Raise(kind) == <<"raise", kind, <<>>>>
IsOk(r) == r[1] = "ok"

\* utility.listview: a view of a list; walk() gives (head, tail), and taking
\* the head of an empty view raises StopIteration.
walk(toks) ==
    IF Len(toks) = 0 THEN Raise(StopIteration)
    ELSE Ok(Head(toks), Tail(toks))

listview_head(toks) ==
    IF Len(toks) = 0 THEN Raise(StopIteration)
    ELSE Ok(Head(toks), <<>>)

_is_id(token) == token \notin {LP, RP, TK_NOT, TK_AND, TK_OR}

_parse_id(token) ==
    IF ~_is_id(token) THEN Raise(ExpressionSyntaxError)
    ELSE Ok(Id(token), <<>>)

(***************************************************************************)
(* expression_compiler: the recursive-descent parser.  Each function       *)
(* returns Ok(node, remainder) or Raise(kind); a raise in a callee is      *)
(* passed on unchanged.                                                    *)
(***************************************************************************)
RECURSIVE _parse_expr(_), _parse_expr_not(_), _parse_cont(_, _),
          _parse_cont_and(_, _), _parse_parens_contents(_),
          ParseContAndLate(_, _), ParseContAndRightNested(_, _)

_parse_expr(toks) ==
    LET w == walk(toks)
    IN  IF ~IsOk(w) THEN w
        ELSE LET head == w[2]
                 tail == w[3]
             IN  IF head = TK_NOT THEN _parse_expr_not(tail)
                 ELSE IF head = LP THEN
                     LET p == _parse_parens_contents(toks)
                     IN  IF IsOk(p) THEN _parse_cont(p[2], p[3]) ELSE p
                 ELSE IF _is_id(head) THEN
                     LET n == _parse_id(head)
                     IN  IF IsOk(n) THEN _parse_cont(n[2], tail) ELSE n
                 ELSE Raise(ExpressionSyntaxError)

\* _parse_expr_not negating the whole expression that follows "not"
ParseExprNotNegatingRest(toks) ==
    LET r == _parse_expr(toks)
    IN  IF IsOk(r) THEN Ok(Not(r[2]), r[3]) ELSE r

_parse_expr_not(toks) ==
    LET h == listview_head(toks)
    IN  IF ~IsOk(h) THEN h
        ELSE LET head == h[2]
             IN  IF _is_id(head) THEN
                     LET n == _parse_id(head)
                     IN  IF IsOk(n) THEN _parse_cont(Not(n[2]), Tail(toks)) ELSE n
                 ELSE IF head = LP THEN
                     LET p == _parse_parens_contents(toks)
                     IN  IF IsOk(p) THEN _parse_cont(Not(p[2]), p[3]) ELSE p
                 ELSE Raise(ExpressionSyntaxError)

\* _parse_cont with "and" bound as late as "or": the right side of an "and"
\* is the whole rest of the expression
ParseContAndLate(left, toks) ==
    IF Len(toks) = 0 THEN Ok(left, <<>>)
    ELSE LET head == Head(toks)
             tail == Tail(toks)
         IN  IF head = RP THEN Ok(left, toks)
             ELSE IF head = TK_OR THEN
                 LET r == _parse_expr(tail)
                 IN  IF IsOk(r) THEN Ok(Or(left, r[2]), r[3]) ELSE r
             ELSE IF head = TK_AND THEN
                 LET r == _parse_expr(tail)
                 IN  IF IsOk(r) THEN Ok(And(left, r[2]), r[3]) ELSE r
             ELSE Raise(ExpressionSyntaxError)

_parse_cont(left, toks) ==
    IF Len(toks) = 0 THEN Ok(left, <<>>)
    ELSE LET w == walk(toks)
             head == w[2]
             tail == w[3]
         IN  IF head = RP THEN Ok(left, toks)
             ELSE IF head = TK_OR THEN
                 LET r == _parse_expr(tail)
                 IN  IF IsOk(r) THEN Ok(Or(left, r[2]), r[3]) ELSE r
             ELSE IF head = TK_AND THEN _parse_cont_and(left, tail)
             ELSE Raise(ExpressionSyntaxError)

\* _parse_cont_and binding "and" to the right: the continuation is parsed
\* from the right operand before the And node is built
ParseContAndRightNested(left, toks) ==
    LET w == walk(toks)
    IN  IF ~IsOk(w) THEN w
        ELSE LET head == w[2]
                 tail == w[3]
                 nest(r) == IF IsOk(r) THEN Ok(And(left, r[2]), r[3]) ELSE r
             IN  IF _is_id(head) THEN
                     LET n == _parse_id(head)
                     IN  IF IsOk(n) THEN nest(_parse_cont(n[2], tail)) ELSE n
                 ELSE IF head = LP THEN
                     LET p == _parse_parens_contents(toks)
                     IN  IF IsOk(p) THEN nest(_parse_cont(p[2], p[3])) ELSE p
                 ELSE IF head = TK_NOT THEN
                     LET h2 == listview_head(tail)
                     IN  IF ~IsOk(h2) THEN h2
                         ELSE LET head2 == h2[2]
                              IN  IF _is_id(head2) THEN
                                      LET n == _parse_id(head2)
                                      IN  IF IsOk(n)
                                          THEN nest(_parse_cont(Not(n[2]), Tail(tail)))
                                          ELSE n
                                  ELSE IF head2 = LP THEN
                                      LET p == _parse_parens_contents(tail)
                                      IN  IF IsOk(p)
                                          THEN nest(_parse_cont(Not(p[2]), p[3]))
                                          ELSE p
                                  ELSE Raise(ExpressionSyntaxError)
                 ELSE Raise(ExpressionSyntaxError)

_parse_cont_and(left, toks) ==
    LET w == walk(toks)
    IN  IF ~IsOk(w) THEN w
        ELSE LET head == w[2]
                 tail == w[3]
             IN  IF _is_id(head) THEN
                     LET n == _parse_id(head)
                     IN  IF IsOk(n) THEN _parse_cont(And(left, n[2]), tail) ELSE n
                 ELSE IF head = LP THEN
                     LET p == _parse_parens_contents(toks)
                     IN  IF IsOk(p) THEN _parse_cont(And(left, p[2]), p[3]) ELSE p
                 ELSE IF head = TK_NOT THEN
                     LET h2 == listview_head(tail)
                     IN  IF ~IsOk(h2) THEN h2
                         ELSE LET head2 == h2[2]
                              IN  IF _is_id(head2) THEN
                                      LET n == _parse_id(head2)
                                      IN  IF IsOk(n)
                                          THEN _parse_cont(And(left, Not(n[2])), Tail(tail))
                                          ELSE n
                                  ELSE IF head2 = LP THEN
                                      LET p == _parse_parens_contents(tail)
                                      IN  IF IsOk(p)
                                          THEN _parse_cont(And(left, Not(p[2])), p[3])
                                          ELSE p
                                  ELSE Raise(ExpressionSyntaxError)
                 ELSE Raise(ExpressionSyntaxError)

_parse_parens_contents(toks) ==
    LET w == walk(toks)
    IN  IF ~IsOk(w) THEN w
        ELSE LET head == w[2]
                 tail == w[3]
             IN  IF head # LP THEN Raise(ExpressionSyntaxError)
                 ELSE LET r == _parse_expr(tail)
                      IN  IF ~IsOk(r) THEN r
                          ELSE IF Len(r[3]) = 0 THEN Raise(ExpressionSyntaxError)
                          ELSE IF Head(r[3]) = RP THEN Ok(r[2], Tail(r[3]))
                          ELSE Raise(ExpressionSyntaxError)

\* parse without its except clause: a StopIteration leaves parse as it is
ParseNotCatching(toks) ==
    IF Len(toks) = 0 THEN <<"raise", ExpressionSyntaxError>>
    ELSE LET r == _parse_expr(toks)
         IN  IF ~IsOk(r) THEN <<"raise", r[2]>>
             ELSE IF Len(r[3]) # 0 THEN <<"raise", ExpressionSyntaxError>>
             ELSE <<"ok", r[2]>>

\* parse(tokens): <<"ok", node>> or <<"raise", kind>>
parse(toks) ==
    IF Len(toks) = 0 THEN <<"raise", ExpressionSyntaxError>>
    ELSE LET r == _parse_expr(toks)
         IN  IF ~IsOk(r) THEN
                 IF r[2] = StopIteration THEN <<"raise", ExpressionSyntaxError>>
                 ELSE <<"raise", r[2]>>
             ELSE IF Len(r[3]) # 0 THEN <<"raise", ExpressionSyntaxError>>
             ELSE <<"ok", r[2]>>

\* expression_compiler.compile, imported by template_compiler as
\* compile_expression
compile_expression(x) == parse(lex(x))

(***************************************************************************)
(* expression_compiler: evaluation.                                        *)
(***************************************************************************)
RECURSIVE eval(_, _), EvalAndAsOr(_, _)

\* Node.eval with And.eval computed as Or.eval
EvalAndAsOr(node, syms) ==
    CASE node[1] = "id" -> node[2] \in syms
      [] node[1] = "not" -> ~eval(node[2], syms)
      [] node[1] = "and" -> eval(node[2], syms) \/ eval(node[3], syms)
      [] node[1] = "or" -> eval(node[2], syms) \/ eval(node[3], syms)

\* Id.eval, Not.eval, And.eval, Or.eval
eval(node, syms) ==
    CASE node[1] = "id" -> node[2] \in syms
      [] node[1] = "not" -> ~eval(node[2], syms)
      [] node[1] = "and" -> eval(node[2], syms) /\ eval(node[3], syms)
      [] node[1] = "or" -> eval(node[2], syms) \/ eval(node[3], syms)

\* expression_compiler.evaluate, imported by template_compiler as evalexpr
evaluate(node, syms) == eval(node, syms)

(***************************************************************************)
(* Inputs of the expression engine.                                        *)
(***************************************************************************)
SP == <<" ">>
IdA == <<"a">>
IdB == <<"b">>
IdC == <<"c">>
IdD == <<"d">>
IdUpperA == <<"A">>

Ids == {IdA, IdB, IdC}

SeqsUpTo(S, n) == UNION {[1..k -> S] : k \in 0..n}

\* every sequence of at most MaxTokens words, the words one space apart
Words == {IdA, TK_AND, TK_OR, TK_NOT, LP, RP}
TokenTexts == {Join(ws, SP) : ws \in SeqsUpTo(Words, MaxTokens)}

\* operands, each an identifier with or without "not", joined by and/or
ChainWords(ids, negs, ops) ==
    Concat([i \in 1..Len(ids) |->
               (IF negs[i] THEN <<TK_NOT>> ELSE <<>>) \o <<ids[i]>>
               \o (IF i < Len(ids) THEN <<ops[i]>> ELSE <<>>)])
ChainTexts ==
    UNION {{Join(ChainWords(ids, negs, ops), SP) :
               ids \in [1..k -> Ids], negs \in [1..k -> BOOLEAN],
               ops \in [1..(k - 1) -> {TK_AND, TK_OR}]} : k \in 2..MaxOperands}

\* identifiers joined by one operator throughout
PureChainTexts ==
    UNION {{Join(ChainWords(ids, [i \in 1..k |-> FALSE], [i \in 1..(k - 1) |-> op]), SP) :
               ids \in [1..k -> {IdA, IdB}], op \in {TK_AND, TK_OR}} : k \in 2..MaxChain}

\* pieces put together with no separator but the spaces among the pieces
Pieces == {IdA, <<"B">>, <<"O", "r">>, <<"N", "O", "T">>, SP, LP, RP}
LexTexts == {Concat(ps) : ps \in SeqsUpTo(Pieces, MaxPieces)}

\* expressions of tests/test_expression_compiler.py beyond these families
ExampleTexts ==
    { Concat(<<TK_NOT, LP, IdA, SP, TK_AND, SP, IdB, RP, TK_OR, SP, IdC>>),
      Concat(<<TK_NOT, SP, LP, IdA, SP, TK_AND, SP, IdB, RP, SP, TK_OR, SP, IdC>>),
      Concat(<<SP, SP, IdA, SP, SP, SP, SP, TK_AND, SP, SP, LP, IdB, SP, SP, SP,
               TK_OR, SP, SP, IdC, RP, SP>>),
      Concat(<<IdA, SP, TK_AND, LP, IdB, SP, TK_OR, SP, IdC, RP>>),
      Concat(<<IdA, SP, <<"A", "N", "D">>, SP, IdB>>),
      Concat(<<IdA, SP, <<"O", "R">>, SP, IdB>>),
      Concat(<<<<"N", "o", "t">>, SP, IdUpperA>>),
      IdUpperA,
      Concat(<<LP, LP, LP, IdA, RP, RP, RP>>),
      Concat(<<IdA, SP, TK_AND, SP, IdB, SP, TK_OR, SP, IdC, SP, TK_AND, SP, IdD>>),
      Concat(<<IdA, SP, TK_AND, SP, IdB, SP, TK_AND, SP, IdC, SP, TK_AND, SP, IdD>>),
      Concat(<<IdA, SP, TK_OR, SP, IdB, SP, TK_OR, SP, IdC, SP, TK_OR, SP, IdD>>),
      Concat(<<LP, IdA, SP, TK_AND, SP, IdB, RP, SP, TK_OR, SP, LP, IdC, SP, TK_AND,
               SP, IdD, RP>>),
      Concat(<<IdA, SP, TK_AND, SP, TK_NOT, SP, LP, IdB, SP, TK_OR, SP, IdC, RP>>),
      Concat(<<LP, IdA, SP, TK_AND, SP, IdB, SP, TK_OR, SP, IdC>>),
      Concat(<<LP, LP, IdA, SP, TK_AND, SP, IdB, RP, SP, TK_OR, SP, IdC>>),
      Concat(<<LP, IdA, SP, TK_AND, SP, IdB, RP, SP, TK_OR, SP, IdC, RP>>),
      Concat(<<IdA, SP, TK_AND, SP, IdB, SP, LP>>),
      Concat(<<IdA, SP, TK_OR, RP, SP, IdB>>),
      Concat(<<IdA, SP, TK_AND, SP, IdB, SP, TK_AND, SP, TK_NOT>>),
      Concat(<<IdA, SP, TK_AND, SP, TK_NOT, SP, LP, IdB>>),
      Concat(<<<<"É">>, SP, <<"A", "n", "d">>, SP, <<"é">>>>),
      Concat(<<<<"Α", SIGMA>>, SP, <<"A", "N", "D">>, SP, <<SIGMA>>>>) }

ExprInputs == TokenTexts \cup ChainTexts \cup PureChainTexts \cup LexTexts \cup ExampleTexts

(***************************************************************************)
(* The expression engine as a state machine: a caller holds an expression  *)
(* string and calls lex or compile on it.                                  *)
(***************************************************************************)
NoResult == <<"none", <<>>>>

Init ==
    /\ mode = "expr"
    /\ pc = "input"
    /\ text \in ExprInputs
    /\ tokens = <<>>
    /\ result = NoResult
    /\ symbols = {}
    /\ value = FALSE
    /\ out = <<>>
    /\ PPD_PREFIX = <<"#">>
    /\ prefix_arg = <<"str", <<"#">>>>

\* list(lex(text))
Lex ==
    /\ mode = "expr"
    /\ pc = "input"
    /\ tokens' = lex(text)
    /\ pc' = "lexed"
    /\ UNCHANGED <<mode, text, result, symbols, value, out, PPD_PREFIX, prefix_arg>>

\* compile(text) = parse(list(lex(text)))
Compile ==
    /\ mode = "expr"
    /\ pc \in {"input", "lexed"}
    /\ tokens' = lex(text)
    /\ result' = parse(tokens')
    /\ pc' = "compiled"
    /\ UNCHANGED <<mode, text, symbols, value, out, PPD_PREFIX, prefix_arg>>

Next == Lex \/ Compile

Spec == Init /\ [][Next]_vars

(***************************************************************************)
(* Claims about the expression compiler, checked under Spec.               *)
(***************************************************************************)
Compiled == mode = "expr" /\ pc = "compiled"

\* an operand of the precedence claim: an identifier, or "not" and an identifier
Operands ==
    {[toks |-> <<id>>, node |-> Id(id)] : id \in Ids}
    \cup {[toks |-> <<TK_NOT, id>>, node |-> Not(Id(id))] : id \in Ids}

\* C1: "and" binds tighter than "or".  When the compiled expression is
\* x and y or z, the AST is Or(And(x, y), z) and equals that of
\* (x and y) or z; when it is x or y and z, the AST is Or(x, And(y, z)) and
\* equals that of x or (y and z); x, y, z identifiers with or without "not".
C1_AndBindsTighterThanOr ==
    (Compiled /\ Len(tokens) \in 5..8) =>
        \A x, y, z \in Operands :
            /\ tokens = x.toks \o <<TK_AND>> \o y.toks \o <<TK_OR>> \o z.toks =>
                   /\ result = <<"ok", Or(And(x.node, y.node), z.node)>>
                   /\ result = compile_expression(
                          Join(<<LP>> \o x.toks \o <<TK_AND>> \o y.toks
                               \o <<RP, TK_OR>> \o z.toks, SP))
            /\ tokens = x.toks \o <<TK_OR>> \o y.toks \o <<TK_AND>> \o z.toks =>
                   /\ result = <<"ok", Or(x.node, And(y.node, z.node))>>
                   /\ result = compile_expression(
                          Join(x.toks \o <<TK_OR, LP>> \o y.toks \o <<TK_AND>>
                               \o z.toks \o <<RP>>, SP))

\* "not a and b or not c" has been compiled to Or(And(Not a, b), Not c)
C1_Witness ==
    /\ Compiled
    /\ tokens = <<TK_NOT, IdA, TK_AND, IdB, TK_OR, TK_NOT, IdC>>
    /\ result = <<"ok", Or(And(Not(Id(IdA)), Id(IdB)), Not(Id(IdC)))>>

Reserved == {LP, RP, TK_NOT, TK_AND, TK_OR}

\* toks is id op id op ... id, with at least two identifiers
IsChainOf(toks, op) ==
    /\ Len(toks) >= 3
    /\ Len(toks) % 2 = 1
    /\ \A i \in 1..Len(toks) :
           IF i % 2 = 1 THEN toks[i] \notin Reserved ELSE toks[i] = op

ChainIds(toks) == [i \in 1..((Len(toks) + 1) \div 2) |-> toks[2 * i - 1]]

RECURSIVE LeftNestedAnd(_)
LeftNestedAnd(ids) ==
    IF Len(ids) = 1 THEN Id(ids[1])
    ELSE And(LeftNestedAnd(SubSeq(ids, 1, Len(ids) - 1)), Id(ids[Len(ids)]))

RECURSIVE RightNestedOr(_)
RightNestedOr(ids) ==
    IF Len(ids) = 1 THEN Id(ids[1])
    ELSE Or(Id(ids[1]), RightNestedOr(Tail(ids)))

\* C2: a chain of two or more identifiers joined only by "and" compiles to
\* the left-nested And tree, and one joined only by "or" to the right-nested
\* Or tree.
C2_ChainNesting ==
    Compiled =>
        /\ IsChainOf(tokens, TK_AND) =>
               result = <<"ok", LeftNestedAnd(ChainIds(tokens))>>
        /\ IsChainOf(tokens, TK_OR) =>
               result = <<"ok", RightNestedOr(ChainIds(tokens))>>

\* "a and b and c and d" has been compiled to And(And(And(a, b), c), d)
C2_Witness ==
    /\ Compiled
    /\ tokens = <<IdA, TK_AND, IdB, TK_AND, IdC, TK_AND, IdD>>
    /\ result = <<"ok", And(And(And(Id(IdA), Id(IdB)), Id(IdC)), Id(IdD))>>

\* The grammar of the expression language, as the set of positions at which
\* a phrase that starts at position i can end (the position after its last
\* token):
\*   expr := term (or expr)?      term := factor (and factor)*
\*   factor := not primary | primary      primary := ID | ( expr )
RECURSIVE ExprEnds(_, _), TermEnds(_, _), FactorEnds(_, _), PrimaryEnds(_, _)

PrimaryEnds(toks, i) ==
    IF i > Len(toks) THEN {}
    ELSE IF toks[i] \notin Reserved THEN {i + 1}
    ELSE IF toks[i] = LP
         THEN {j + 1 : j \in {k \in ExprEnds(toks, i + 1) :
                                   k <= Len(toks) /\ toks[k] = RP}}
    ELSE {}

FactorEnds(toks, i) ==
    IF i > Len(toks) THEN {}
    ELSE IF toks[i] = TK_NOT THEN PrimaryEnds(toks, i + 1)
    ELSE PrimaryEnds(toks, i)

TermEnds(toks, i) ==
    LET F == FactorEnds(toks, i)
    IN  F \cup UNION {TermEnds(toks, j + 1) :
                          j \in {k \in F : k <= Len(toks) /\ toks[k] = TK_AND}}

ExprEnds(toks, i) ==
    LET T == TermEnds(toks, i)
    IN  T \cup UNION {ExprEnds(toks, j + 1) :
                          j \in {k \in T : k <= Len(toks) /\ toks[k] = TK_OR}}

Derivable(toks) == (Len(toks) + 1) \in ExprEnds(toks, 1)

\* C3: a token sequence the grammar does not derive makes compile raise
\* ExpressionSyntaxError, and compile raises nothing but
\* ExpressionSyntaxError (no StopIteration escapes when the tokens run out).
C3_MalformedRaisesSyntaxError ==
    Compiled =>
        /\ result[1] = "raise" => result[2] = ExpressionSyntaxError
        /\ ~Derivable(tokens) => result = <<"raise", ExpressionSyntaxError>>

\* "a and not" ran out of tokens after the final "not" and was rejected
C3_Witness ==
    /\ Compiled
    /\ tokens = <<IdA, TK_AND, TK_NOT>>
    /\ ~Derivable(tokens)
    /\ result = <<"raise", ExpressionSyntaxError>>

\* The tokens of a string, by position: a token starts at a character that
\* is no space and that is a parenthesis, or the first character, or comes
\* after a space or a parenthesis; a parenthesis is a token by itself, any
\* other token runs up to the next space, parenthesis or end of string.
IsDelim(c) == c \in {" ", "(", ")"}

TokenStarts(s) ==
    {i \in 1..Len(s) :
        /\ s[i] # " "
        /\ s[i] \in {"(", ")"} \/ i = 1 \/ IsDelim(s[i - 1])}

TokenEnd(s, i) ==
    IF s[i] \in {"(", ")"} THEN i
    ELSE CHOOSE j \in i..Len(s) :
             /\ \A k \in i..j : ~IsDelim(s[k])
             /\ j = Len(s) \/ IsDelim(s[j + 1])

NthStart(s, n) ==
    CHOOSE i \in TokenStarts(s) : Cardinality({j \in TokenStarts(s) : j < i}) = n - 1

WordsOf(s) ==
    [n \in 1..Cardinality(TokenStarts(s)) |->
        SubSeq(s, NthStart(s, n), TokenEnd(s, NthStart(s, n)))]

IsKeywordIgnoringCase(w) == Lower(w) \in {TK_AND, TK_OR, TK_NOT}

Lexed == mode = "expr" /\ pc \in {"lexed", "compiled"}

\* C4: lex yields one token for each word of the string, in order: spaces
\* yield nothing, each parenthesis is a token of its own, a word that is
\* and/or/not in any letter case is yielded in lowercase and any other word
\* unchanged; so "Not A" compiles as "not A" does, to Not(Id("A")), which is
\* not Not(Id("a")).
C4_LexTokens ==
    /\ Lexed =>
           /\ Len(tokens) = Len(WordsOf(text))
           /\ \A n \in 1..Len(tokens) :
                  LET w == WordsOf(text)[n]
                  IN  /\ tokens[n] # <<>>
                      /\ \A k \in 1..Len(tokens[n]) : tokens[n][k] # " "
                      /\ IsKeywordIgnoringCase(w) => tokens[n] = Lower(w)
                      /\ ~IsKeywordIgnoringCase(w) => tokens[n] = w
                      /\ (\E k \in 1..Len(w) : w[k] \in {"(", ")"}) => Len(tokens[n]) = 1
    /\ (Lexed /\ text = Concat(<<TK_NOT, LP, IdA, SP, TK_AND, SP, IdB, RP, TK_OR, SP, IdC>>)) =>
           tokens = <<TK_NOT, LP, IdA, TK_AND, IdB, RP, TK_OR, IdC>>
    /\ (Compiled /\ text = Concat(<<<<"N", "o", "t">>, SP, IdUpperA>>)) =>
           /\ result = compile_expression(Concat(<<TK_NOT, SP, IdUpperA>>))
           /\ result = <<"ok", Not(Id(IdUpperA))>>
           /\ result # <<"ok", Not(Id(IdA))>>

\* "B NOT(" has been lexed: an identifier in upper case, a keyword in upper
\* case and a parenthesis with no space before it
C4_Witness ==
    /\ Lexed
    /\ text = Concat(<<<<"B">>, SP, <<"N", "O", "T">>, LP>>)
    /\ tokens = <<<<"B">>, TK_NOT, LP>>

(***************************************************************************)
(* The evaluator as a state machine: a caller holds an AST and evaluates   *)
(* it against symbol sets.                                                 *)
(***************************************************************************)
EvalIds == {IdA, IdB, IdUpperA}

\* the ASTs of exactly n nodes over EvalIds
RECURSIVE NodesOfSize(_)
NodesOfSize(n) ==
    IF n = 1 THEN {Id(i) : i \in EvalIds}
    ELSE {Not(t) : t \in NodesOfSize(n - 1)}
         \cup UNION {{And(l, r) : l \in NodesOfSize(k), r \in NodesOfSize(n - 1 - k)} :
                        k \in 1..(n - 2)}
         \cup UNION {{Or(l, r) : l \in NodesOfSize(k), r \in NodesOfSize(n - 1 - k)} :
                        k \in 1..(n - 2)}

EvalInputs == UNION {NodesOfSize(n) : n \in 1..MaxNodes}

EvalInit ==
    /\ mode = "eval"
    /\ pc = "compiled"
    /\ text = <<>>
    /\ tokens = <<>>
    /\ result \in {<<"ok", node>> : node \in EvalInputs}
    /\ symbols = {}
    /\ value = FALSE
    /\ out = <<>>
    /\ PPD_PREFIX = <<"#">>
    /\ prefix_arg = <<"str", <<"#">>>>

\* evaluate(node, syms)
Evaluate(syms) ==
    /\ mode = "eval"
    /\ pc \in {"compiled", "evaluated"}
    /\ symbols' = syms
    /\ value' = evaluate(result[2], syms)
    /\ pc' = "evaluated"
    /\ UNCHANGED <<mode, text, tokens, result, out, PPD_PREFIX, prefix_arg>>

EvalNext == \E syms \in SUBSET EvalIds : Evaluate(syms)

SpecEval == EvalInit /\ [][EvalNext]_vars

\* The symbol sets that satisfy a node: those holding the name for Id, the
\* complement for Not, the intersection for And, the union for Or.
RECURSIVE Models(_)
Models(node) ==
    CASE node[1] = "id" -> {S \in SUBSET EvalIds : node[2] \in S}
      [] node[1] = "not" -> (SUBSET EvalIds) \ Models(node[2])
      [] node[1] = "and" -> Models(node[2]) \cap Models(node[3])
      [] node[1] = "or" -> Models(node[2]) \cup Models(node[3])

Evaluated == mode = "eval" /\ pc = "evaluated"

\* C5: evaluation follows boolean logic.  The value of a node against a
\* symbol set is TRUE exactly when the set satisfies the node; And(a, b) is
\* true against {a, b} alone and Or(a, b) against every set but {}, and
\* Id("A") is false against {a}.
C5_EvalIsBooleanLogic ==
    Evaluated =>
        /\ value = (symbols \in Models(result[2]))
        /\ result[2] = And(Id(IdA), Id(IdB)) =>
               (value = ({IdA, IdB} \subseteq symbols))
        /\ result[2] = Or(Id(IdA), Id(IdB)) =>
               (value = (symbols \cap {IdA, IdB} # {}))
        /\ (result[2] = Id(IdUpperA) /\ symbols = {IdA}) => value = FALSE

\* And(Not(a), b) has been evaluated against {b} and is true
C5_Witness ==
    /\ Evaluated
    /\ result[2] = And(Not(Id(IdA)), Id(IdB))
    /\ symbols = {IdB}
    /\ value = TRUE

(***************************************************************************)
(* template_compiler: strings.                                             *)
(***************************************************************************)
LINEBREAK == <<"\n">>

\* the ASCII control characters TLA+ has no escape for: vertical tab (0x0b)
\* and the file, group, record and unit separators (0x1c to 0x1f)
VT == ""
FS == ""
GS == ""
RS == ""
US == ""

\* next line (U+0085) and the no-break space (U+00A0)
NEL == ""
NBSP == " "

\* the Ogham space mark (U+1680)
OGHAM == " "

\* the characters str.strip() removes (str.isspace): those up to U+00FF and
\* U+1680.  The remaining white space of Unicode (U+2000 to U+200A, U+2028,
\* U+2029, U+202F, U+205F, U+3000) cannot be written in a TLA+ string, which
\* holds a character above U+00FF only when its low byte is 0x80 or more.
Whitespace == {" ", "\t", "\n", "\r", "\f", VT, FS, GS, RS, US, NEL, NBSP, OGHAM}

\* str.rstrip(chars)
RECURSIVE rstrip(_, _)
rstrip(s, chars) ==
    IF s # <<>> /\ s[Len(s)] \in chars THEN rstrip(SubSeq(s, 1, Len(s) - 1), chars)
    ELSE s

\* str.lstrip(chars)
RECURSIVE lstrip(_, _)
lstrip(s, chars) ==
    IF s # <<>> /\ s[1] \in chars THEN lstrip(Tail(s), chars)
    ELSE s

\* str.strip()
strip(s) == lstrip(rstrip(s, Whitespace), Whitespace)

\* str.startswith(prefix)
startswith(s, prefix) ==
    /\ Len(s) >= Len(prefix)
    /\ SubSeq(s, 1, Len(prefix)) = prefix

\* the position of the first c in s, or 0
IndexOf(s, c) ==
    IF \E i \in 1..Len(s) : s[i] = c
    THEN CHOOSE i \in 1..Len(s) : s[i] = c /\ \A j \in 1..(i - 1) : s[j] # c
    ELSE 0

\* str.split(sep) for a separator of one character
RECURSIVE split(_, _)
split(s, c) ==
    LET i == IndexOf(s, c)
    IN  IF i = 0 THEN <<s>>
        ELSE <<SubSeq(s, 1, i - 1)>> \o split(SubSeq(s, i + 1, Len(s)), c)

(***************************************************************************)
(* template_compiler: the directive keywords, built from the prefix.       *)
(***************************************************************************)
_PPD_IF == PPD_PREFIX \o <<"i", "f">>
_PPD_ELIF == PPD_PREFIX \o <<"e", "l", "i", "f">>
_PPD_ELSE == PPD_PREFIX \o <<"e", "l", "s", "e">>
_PPD_ENDIF == PPD_PREFIX \o <<"e", "n", "d", "i", "f">>

(***************************************************************************)
(* template_compiler: blocks.                                              *)
(***************************************************************************)
TextBlock(t) == <<"text", t>>
IfBlock(if_entries) == <<"if", if_entries>>
IfEntry(expression, blocks) == <<"ifentry", expression, blocks>>
ElseEntry(blocks) == <<"elseentry", <<>>, blocks>>

\* what _parse_until and _parse_if_entries give back: the blocks or entries,
\* the directive line that ended them (None is <<>>) and the position of the
\* next line of the iterator
POk(x, last_line, i) == <<"ok", x, last_line, i>>
PRaise(kind) == <<"raise", kind, <<>>, 0>>

\* _fetch_directive comparing the keyword as it is written, not lower-cased
FetchDirectiveKeepingCase(line) == split(strip(line), " ")[1]

\* ls.split(' ')[0]: split never gives an empty list, so the except clause
\* of _fetch_directive is never entered
_fetch_directive(line) ==
    LET ls == Lower(strip(line))
    IN  split(ls, " ")[1]

\* line.split(' ', maxsplit=1)[1]
_fetch_expression(line) ==
    LET i == IndexOf(line, " ")
    IN  IF i = 0 THEN Raise(DirectiveSyntaxError)
        ELSE Ok(SubSeq(line, i + 1, Len(line)), <<>>)

RECURSIVE parse_until_loop(_, _, _, _, _), _parse_if_entries(_, _, _),
          if_entries_loop(_, _, _, _), ParseUntilClosingAtEnd(_, _, _, _, _),
          ParseUntilSkippingUnexpected(_, _, _, _, _)

\* parse_until_loop taking the end of the input as the end directive of
\* every conditional still open
ParseUntilClosingAtEnd(lines, i, end_directives, blocks, current) ==
    IF i > Len(lines) THEN
        IF end_directives # {} THEN POk(Append(blocks, TextBlock(current)), _PPD_ENDIF, i)
        ELSE POk(Append(blocks, TextBlock(current)), <<>>, i)
    ELSE
        LET line == rstrip(lines[i], {"\r", "\n"})
            l == strip(line)
        IN  IF startswith(l, PPD_PREFIX) THEN
                LET directive == _fetch_directive(l)
                IN  IF directive \in end_directives THEN
                        POk(Append(blocks, TextBlock(current)), l, i + 1)
                    ELSE IF directive = _PPD_IF THEN
                        LET flushed == IF current # <<>>
                                       THEN Append(blocks, TextBlock(current))
                                       ELSE blocks
                            \* result.append(IfBlock(e)) and the next turn of
                            \* the loop, e being list(_parse_if_entries(l, lines))
                            append_if(e) ==
                                IF ~IsOk(e) THEN e
                                ELSE parse_until_loop(lines, e[4], end_directives,
                                                      Append(flushed, IfBlock(e[2])), <<>>)
                        IN  append_if(_parse_if_entries(l, lines, i + 1))
                    ELSE PRaise(DirectiveSyntaxError)
            ELSE parse_until_loop(lines, i + 1, end_directives, blocks,
                                  current \o line \o LINEBREAK)

\* parse_until_loop passing over a directive it does not expect instead of
\* raising
ParseUntilSkippingUnexpected(lines, i, end_directives, blocks, current) ==
    IF i > Len(lines) THEN
        IF end_directives # {} THEN PRaise(DirectiveSyntaxError)
        ELSE POk(Append(blocks, TextBlock(current)), <<>>, i)
    ELSE
        LET line == rstrip(lines[i], {"\r", "\n"})
            l == strip(line)
        IN  IF startswith(l, PPD_PREFIX) THEN
                LET directive == _fetch_directive(l)
                IN  IF directive \in end_directives THEN
                        POk(Append(blocks, TextBlock(current)), l, i + 1)
                    ELSE IF directive = _PPD_IF THEN
                        LET flushed == IF current # <<>>
                                       THEN Append(blocks, TextBlock(current))
                                       ELSE blocks
                            \* result.append(IfBlock(e)) and the next turn of
                            \* the loop, e being list(_parse_if_entries(l, lines))
                            append_if(e) ==
                                IF ~IsOk(e) THEN e
                                ELSE parse_until_loop(lines, e[4], end_directives,
                                                      Append(flushed, IfBlock(e[2])), <<>>)
                        IN  append_if(_parse_if_entries(l, lines, i + 1))
                    ELSE parse_until_loop(lines, i + 1, end_directives, blocks, current)
            ELSE parse_until_loop(lines, i + 1, end_directives, blocks,
                                  current \o line \o LINEBREAK)

\* The while loop of _parse_until: i is the position of the next line of the
\* iterator, blocks is result and current is current_block.text.
parse_until_loop(lines, i, end_directives, blocks, current) ==
    IF i > Len(lines) THEN
        \* next(lines) raises StopIteration
        IF end_directives # {} THEN PRaise(DirectiveSyntaxError)
        ELSE POk(Append(blocks, TextBlock(current)), <<>>, i)
    ELSE
        LET line == rstrip(lines[i], {"\r", "\n"})
            l == strip(line)
        IN  IF startswith(l, PPD_PREFIX) THEN
                LET directive == _fetch_directive(l)
                IN  IF directive \in end_directives THEN
                        POk(Append(blocks, TextBlock(current)), l, i + 1)
                    ELSE IF directive = _PPD_IF THEN
                        LET flushed == IF current # <<>>
                                       THEN Append(blocks, TextBlock(current))
                                       ELSE blocks
                            \* result.append(IfBlock(e)) and the next turn of
                            \* the loop, e being list(_parse_if_entries(l, lines))
                            append_if(e) ==
                                IF ~IsOk(e) THEN e
                                ELSE parse_until_loop(lines, e[4], end_directives,
                                                      Append(flushed, IfBlock(e[2])), <<>>)
                        IN  append_if(_parse_if_entries(l, lines, i + 1))
                    ELSE PRaise(DirectiveSyntaxError)
            ELSE parse_until_loop(lines, i + 1, end_directives, blocks,
                                  current \o line \o LINEBREAK)

_parse_until(lines, i, end_directives) ==
    parse_until_loop(lines, i, end_directives, <<>>, <<>>)

\* The while loop of _parse_if_entries: entries are the entries yielded so far.
if_entries_loop(last_line, lines, i, entries) ==
    LET \* yield IfEntry(if_expression, if_blocks) and what follows it, u being
        \* _parse_until(lines, (_PPD_ELIF, _PPD_ELSE, _PPD_ENDIF))
        yield_entry(if_expression, u) ==
            IF ~IsOk(u) THEN u
            ELSE
            LET yielded == Append(entries, IfEntry(if_expression, u[2]))
                next_directive == _fetch_directive(u[3])
                \* yield ElseEntry(else_blocks), v being
                \* _parse_until(lines, (_PPD_ENDIF,))
                yield_else(v) ==
                    IF ~IsOk(v) THEN v
                    ELSE POk(Append(yielded, ElseEntry(v[2])), v[3], v[4])
            IN  IF next_directive = _PPD_ENDIF THEN POk(yielded, u[3], u[4])
                ELSE IF next_directive = _PPD_ELSE THEN
                    yield_else(_parse_until(lines, u[4], {_PPD_ENDIF}))
                ELSE IF next_directive # _PPD_ELIF THEN PRaise(DirectiveSyntaxError)
                ELSE if_entries_loop(u[3], lines, u[4], yielded)
        \* c is compile_expression(...) of the text after the directive
        with_expression(c) ==
            IF c[1] # "ok" THEN PRaise(c[2])
            ELSE yield_entry(c[2], _parse_until(lines, i,
                                                {_PPD_ELIF, _PPD_ELSE, _PPD_ENDIF}))
        \* x is _fetch_expression(last_line)
        with_text(x) ==
            IF ~IsOk(x) THEN PRaise(x[2])
            ELSE with_expression(compile_expression(x[2]))
    IN  with_text(_fetch_expression(last_line))

\* list(_parse_if_entries(last_line, lines))
_parse_if_entries(last_line, lines, i) == if_entries_loop(last_line, lines, i, <<>>)

\* _parse(lines)
_parse(lines) == _parse_until(lines, 1, {})

\* template_compiler.compile(lines), imported by ppdpy as compile_template:
\* <<"ok", blocks>> carries the blocks of the Template it returns
compile_template(lines) ==
    LET returned(r) == IF IsOk(r) THEN <<"ok", r[2]>> ELSE <<"raise", r[2]>>
    IN  returned(_parse(lines))

\* compiles dropping the empty last line of a text that ends with a newline,
\* as str.splitlines does
CompilesDroppingLastEmptyLine(t) ==
    LET ls == split(t, "\n")
    IN  compile_template(IF ls[Len(ls)] = <<>> THEN SubSeq(ls, 1, Len(ls) - 1) ELSE ls)

\* ppdpy.compiles(text)
compiles(t) == compile_template(split(t, "\n"))

(***************************************************************************)
(* template_compiler: rendering.                                           *)
(***************************************************************************)
\* Template(blocks)
Template(blocks) == <<"Template", blocks>>

\* what the render functions give back: <<"ok", str>>, or <<"raise", kind>>
Rendering(s) == <<"ok", s>>
RenderRaise(kind) == <<"raise", kind>>

RECURSIVE _render_sub_blocks(_, _), _render_block(_, _),
          _render_conditional_block(_, _, _),
          RenderEveryTrueEntry(_, _, _), RenderEntryTextOnly(_, _, _)

\* ''.join(_render_block(b, symbols) for b in entry.blocks): a block that
\* raises ends the join
_render_sub_blocks(blocks, syms) ==
    LET parts == [n \in 1..Len(blocks) |-> _render_block(blocks[n], syms)]
    IN  IF \E n \in 1..Len(blocks) : parts[n][1] = "raise"
        THEN parts[CHOOSE n \in 1..Len(blocks) :
                       /\ parts[n][1] = "raise"
                       /\ \A k \in 1..(n - 1) : parts[k][1] # "raise"]
        ELSE Rendering(Concat([n \in 1..Len(blocks) |-> parts[n][2]]))

\* _render_conditional_block going on after a match: every entry whose guard
\* is true is rendered, and the else entry when none is
RenderEveryTrueEntry(if_entries, n, syms) ==
    IF n > Len(if_entries) THEN Rendering(<<>>)
    ELSE LET ifentry == if_entries[n]
         IN  IF ifentry[1] = "ifentry" THEN
                 IF evaluate(ifentry[2], syms)
                 THEN Rendering(
                          _render_sub_blocks(ifentry[3], syms)[2]
                          \o Concat([k \in 1..(Len(if_entries) - n) |->
                                 LET e == if_entries[n + k]
                                 IN  IF e[1] = "ifentry" /\ evaluate(e[2], syms)
                                     THEN _render_sub_blocks(e[3], syms)[2] ELSE <<>>]))
                 ELSE _render_conditional_block(if_entries, n + 1, syms)
             ELSE _render_sub_blocks(ifentry[3], syms)

\* _render_conditional_block rendering the text blocks of the selected entry
\* and none of its conditional blocks
RenderEntryTextOnly(if_entries, n, syms) ==
    LET texts(blocks) ==
            Rendering(Concat([k \in 1..Len(blocks) |->
                                 IF blocks[k][1] = "text" THEN blocks[k][2] ELSE <<>>]))
    IN  IF n > Len(if_entries) THEN Rendering(<<>>)
        ELSE LET ifentry == if_entries[n]
             IN  IF ifentry[1] = "ifentry" THEN
                     IF evaluate(ifentry[2], syms)
                     THEN texts(ifentry[3])
                     ELSE _render_conditional_block(if_entries, n + 1, syms)
                 ELSE texts(ifentry[3])

\* the for loop of _render_conditional_block, from entry n on
_render_conditional_block(if_entries, n, syms) ==
    IF n > Len(if_entries) THEN Rendering(<<>>)
    ELSE LET ifentry == if_entries[n]
         IN  IF ifentry[1] = "ifentry" THEN
                 IF evaluate(ifentry[2], syms)
                 THEN _render_sub_blocks(ifentry[3], syms)
                 ELSE _render_conditional_block(if_entries, n + 1, syms)
             ELSE IF ifentry[1] = "elseentry" THEN _render_sub_blocks(ifentry[3], syms)
             ELSE RenderRaise(ValueError)

_render_block(block, syms) ==
    IF block[1] = "text" THEN Rendering(block[2])
    ELSE IF block[1] = "if" THEN _render_conditional_block(block[2], 1, syms)
    ELSE RenderRaise(ValueError)

\* s[:-len(LINEBREAK)]
CutLast(s) == IF Len(s) <= 1 THEN <<>> ELSE SubSeq(s, 1, Len(s) - 1)

\* render cutting nothing off
RenderUncut(template, syms) ==
    IF template[1] # "Template" THEN RenderRaise(ValueError)
    ELSE _render_sub_blocks(template[2], syms)

\* render(template, symbols)
render(template, syms) ==
    IF template[1] # "Template" THEN RenderRaise(ValueError)
    ELSE LET cut(r) == IF r[1] = "ok" THEN Rendering(CutLast(r[2])) ELSE r
         IN  cut(_render_sub_blocks(template[2], syms))

(***************************************************************************)
(* Inputs of the template engine: documents, each a str that compiles      *)
(* splits into lines.                                                      *)
(***************************************************************************)
\* every document of at most MaxTextLen characters
TextChars == {"X", " ", "\n", "\r", "#", OGHAM}
PlainTexts == SeqsUpTo(TextChars, MaxTextLen)

IfLine(g) == <<"#", "i", "f", " ">> \o g
ElifLine(g) == <<"#", "e", "l", "i", "f", " ">> \o g
ElseLine == <<"#", "e", "l", "s", "e">>
EndifLine == <<"#", "e", "n", "d", "i", "f">>

\* the lines of one conditional: a guard and a body for each #if/#elif
\* branch, then the #else body when there is one
CondLines(gs, bodies, hasElse, elseBody) ==
    Concat([i \in 1..Len(gs) |->
               <<IF i = 1 THEN IfLine(gs[i]) ELSE ElifLine(gs[i])>> \o bodies[i]])
    \o (IF hasElse THEN <<ElseLine>> \o elseBody ELSE <<>>)
    \o <<EndifLine>>

Guards == {IdA, IdB}

BranchText(i) == <<CASE i = 1 -> "X" [] i = 2 -> "Y" [] i = 3 -> "W" [] OTHER -> "V">>
ElseText == <<"Z">>
BeforeText == <<"B">>
AfterText == <<"A">>

\* one conditional, not nested: each body a line of its own or empty, with
\* or without text before and after the conditional
FlatDocs ==
    UNION {{(IF wrap THEN <<BeforeText>> ELSE <<>>)
            \o CondLines(gs,
                         [i \in 1..k |-> IF full[i] THEN <<BranchText(i)>> ELSE <<>>],
                         e[1], IF e[2] THEN <<ElseText>> ELSE <<>>)
            \o (IF wrap THEN <<AfterText>> ELSE <<>>) :
               gs \in [1..k -> Guards], full \in [1..k -> BOOLEAN],
               e \in {<<FALSE, FALSE>>, <<TRUE, FALSE>>, <<TRUE, TRUE>>},
               wrap \in BOOLEAN} : k \in 1..MaxBranches}

\* the text lines of nested conditionals name their depth and their branch
DepthChar(d) ==
    CASE d = 0 -> "p" [] d = 1 -> "q" [] d = 2 -> "r" [] d = 3 -> "s" [] OTHER -> "t"
Mark(d, i) == <<DepthChar(d), CASE i = 1 -> "1" [] i = 2 -> "2" [] OTHER -> "3">>
MarkElse(d) == <<DepthChar(d), "e">>
MarkBefore(d) == <<DepthChar(d), "<">>
MarkAfter(d) == <<DepthChar(d), ">">>

\* the guard of branch i of a conditional that holds d conditionals
NestGuard(d, i) == IF (d + i) % 2 = 0 THEN IdA ELSE IdB

\* conditionals of one or two guarded branches, with or without #else, that
\* hold d conditionals one inside the other: one body of each conditional
\* above the innermost holds the next conditional between two text lines
RECURSIVE NestedConds(_)
NestedConds(d) ==
    LET skeletons == {<<k, hasElse>> : k \in 1..2, hasElse \in BOOLEAN}
        guards(k) == [i \in 1..k |-> NestGuard(d, i)]
        host(inner) == <<MarkBefore(d)>> \o inner \o <<MarkAfter(d)>>
    IN  IF d = 0
        THEN {CondLines(guards(sk[1]), [i \in 1..sk[1] |-> <<Mark(0, i)>>],
                        sk[2], <<MarkElse(0)>>) : sk \in skeletons}
        ELSE UNION {UNION {{CondLines(guards(sk[1]),
                                    [i \in 1..sk[1] |->
                                        IF i = j THEN host(inner) ELSE <<Mark(d, i)>>],
                                    sk[2],
                                    IF j = sk[1] + 1 THEN host(inner)
                                    ELSE <<MarkElse(d)>>) :
                                 inner \in NestedConds(d - 1)} :
                           j \in 1..(sk[1] + (IF sk[2] THEN 1 ELSE 0))} :
                       sk \in skeletons}

NestedDocs == UNION {NestedConds(d) : d \in 1..MaxDepth}

\* the documents above cut short before each of their lines
TruncatedDocs ==
    UNION {{SubSeq(d, 1, n) : n \in 0..(Len(d) - 1)} : d \in FlatDocs \cup NestedDocs}

\* the lines of d with the white space w before and after each directive
Indented(d, w) ==
    [n \in 1..Len(d) |->
        IF d[n] # <<>> /\ d[n][1] = "#" THEN <<w>> \o d[n] \o <<w>> ELSE d[n]]

\* the white space a line can hold
LineSpaces == Whitespace \ {"\n"}

\* one conditional, or one inside a branch of another, whole or cut short,
\* with the same white space around each of its directives
IndentedBases ==
    NestedConds(0) \cup NestedConds(1)
    \cup UNION {{SubSeq(d, 1, n) : n \in 1..(Len(d) - 1)} : d \in NestedConds(0)}

IndentedDocs == {Indented(d, w) : d \in IndentedBases, w \in LineSpaces}

TemplateInputs ==
    PlainTexts
    \cup {Join(d, LINEBREAK) :
              d \in FlatDocs \cup NestedDocs \cup TruncatedDocs \cup IndentedDocs}

(***************************************************************************)
(* The template engine as a state machine: a caller holds a document,      *)
(* compiles it and renders the template against symbol sets.               *)
(***************************************************************************)
RenderSymbols == {IdA, IdB}

TemplateInit ==
    /\ mode = "tpl"
    /\ pc = "input"
    /\ text \in TemplateInputs
    /\ tokens = <<>>
    /\ result = NoResult
    /\ symbols = {}
    /\ value = FALSE
    /\ out = <<>>
    /\ PPD_PREFIX = <<"#">>
    /\ prefix_arg = <<"str", <<"#">>>>

\* template = compiles(text)
Compiles ==
    /\ mode = "tpl"
    /\ pc = "input"
    /\ result' = compiles(text)
    /\ pc' = "compiled"
    /\ UNCHANGED <<mode, text, tokens, symbols, value, out, PPD_PREFIX, prefix_arg>>

\* template.render(syms)
Render(syms) ==
    /\ mode = "tpl"
    /\ pc \in {"compiled", "rendered"}
    /\ result[1] = "ok"
    /\ symbols' = syms
    /\ LET returned(r) ==
               IF r[1] = "ok" THEN out' = r[2] /\ pc' = "rendered"
               ELSE out' = out /\ pc' = r[2]
       IN  returned(render(Template(result[2]), syms))
    /\ UNCHANGED <<mode, text, tokens, result, value, PPD_PREFIX, prefix_arg>>

TemplateNext == Compiles \/ \E syms \in SUBSET RenderSymbols : Render(syms)

SpecTemplate == TemplateInit /\ [][TemplateNext]_vars

(***************************************************************************)
(* Claims about the template compiler, checked under SpecTemplate.         *)
(*                                                                         *)
(* What a document means is stated on its lines, without the block tree:   *)
(* a line-by-line reading that keeps, for each conditional still open,     *)
(* whether its current branch is shown and whether a branch of it has      *)
(* been selected.                                                          *)
(***************************************************************************)
TCompiled == mode = "tpl" /\ pc \in {"compiled", "rendered"}
Rendered == mode = "tpl" /\ pc = "rendered"

DocLines == split(text, "\n")

\* a line with its trailing CR/LF removed, and that with its blanks removed
Bare(line) == rstrip(line, {"\r", "\n"})
Stripped(line) == strip(Bare(line))

IsDirective(line) == startswith(Stripped(line), PPD_PREFIX)

\* "if", "elif", "else", "endif", "unknown" for a directive line; "text"
KindOf(line) ==
    IF ~IsDirective(line) THEN "text"
    ELSE LET ls == Lower(Stripped(line))
             sp == IndexOf(ls, " ")
             word == IF sp = 0 THEN ls ELSE SubSeq(ls, 1, sp - 1)
         IN  CASE word = PPD_PREFIX \o <<"i", "f">> -> "if"
               [] word = PPD_PREFIX \o <<"e", "l", "i", "f">> -> "elif"
               [] word = PPD_PREFIX \o <<"e", "l", "s", "e">> -> "else"
               [] word = PPD_PREFIX \o <<"e", "n", "d", "i", "f">> -> "endif"
               [] OTHER -> "unknown"

KindsOf(lines) == [i \in 1..Len(lines) |-> KindOf(lines[i])]

\* the compiled guard of an #if or #elif line, <<"raise", kind>> without one
GuardOf(line) ==
    LET l == Stripped(line)
        sp == IndexOf(l, " ")
    IN  IF sp = 0 THEN <<"raise", DirectiveSyntaxError>>
        ELSE compile_expression(SubSeq(l, sp + 1, Len(l)))

Shown(stack) == stack = <<>> \/ stack[Len(stack)].shown
Front(stack) == SubSeq(stack, 1, Len(stack) - 1)

\* Reads lines[i..]: ok is FALSE when a directive is out of place or has no
\* usable guard, open counts the conditionals not closed at the end, shown
\* is every text line read while all branches around it were selected, each
\* with a newline after it.
RECURSIVE Reading(_, _, _, _, _)
Reading(lines, i, stack, shown, syms) ==
    IF i > Len(lines) THEN [ok |-> TRUE, open |-> Len(stack), shown |-> shown]
    ELSE
    LET line == lines[i]
        kind == KindOf(line)
        top == stack[Len(stack)]
        guard == GuardOf(line)
        holds == evaluate(guard[2], syms)
        bad == [ok |-> FALSE, open |-> Len(stack), shown |-> shown]
    IN  CASE kind = "text" ->
                 Reading(lines, i + 1, stack,
                         IF Shown(stack) THEN shown \o Bare(line) \o LINEBREAK ELSE shown,
                         syms)
          [] kind = "if" ->
                 IF guard[1] # "ok" THEN bad
                 ELSE Reading(lines, i + 1,
                              Append(stack, [around |-> Shown(stack),
                                             shown |-> Shown(stack) /\ holds,
                                             selected |-> holds,
                                             inElse |-> FALSE]),
                              shown, syms)
          [] kind = "elif" ->
                 IF stack = <<>> \/ top.inElse \/ guard[1] # "ok" THEN bad
                 ELSE Reading(lines, i + 1,
                              Append(Front(stack),
                                     [around |-> top.around,
                                      shown |-> top.around /\ ~top.selected /\ holds,
                                      selected |-> top.selected \/ holds,
                                      inElse |-> FALSE]),
                              shown, syms)
          [] kind = "else" ->
                 IF stack = <<>> \/ top.inElse THEN bad
                 ELSE Reading(lines, i + 1,
                              Append(Front(stack),
                                     [around |-> top.around,
                                      shown |-> top.around /\ ~top.selected,
                                      selected |-> TRUE,
                                      inElse |-> TRUE]),
                              shown, syms)
          [] kind = "endif" ->
                 IF stack = <<>> THEN bad
                 ELSE Reading(lines, i + 1, Front(stack), shown, syms)
          [] OTHER -> bad

Read(lines, syms) == Reading(lines, 1, <<>>, <<>>, syms)

\* s without its last character, which is a newline
WithoutFinalNewline(s) == IF s = <<>> THEN <<>> ELSE SubSeq(s, 1, Len(s) - 1)

\* the deepest nesting: the most #if lines not yet matched by an #endif
RECURSIVE DeepestFrom(_, _, _, _)
DeepestFrom(kinds, i, depth, deepest) ==
    IF i > Len(kinds) THEN deepest
    ELSE IF kinds[i] = "if"
         THEN DeepestFrom(kinds, i + 1, depth + 1,
                          IF depth + 1 > deepest THEN depth + 1 ELSE deepest)
    ELSE IF kinds[i] = "endif" /\ depth > 0
         THEN DeepestFrom(kinds, i + 1, depth - 1, deepest)
    ELSE DeepestFrom(kinds, i + 1, depth, deepest)

Deepest(kinds) == DeepestFrom(kinds, 1, 0, 0)

TextOf(lines) == Concat([n \in 1..Len(lines) |-> Bare(lines[n]) \o LINEBREAK])

ClaimedExample ==
    Join(<<IfLine(IdA), <<"X">>, ElifLine(IdB), <<"Y">>, ElseLine, <<"Z">>, EndifLine>>,
         LINEBREAK)

\* C6: a conditional renders the body of at most one entry.  For a document
\* with one conditional, the output is the text before it, the lines between
\* the first branch line that is selected (an #if/#elif whose guard holds,
\* else the #else) and the next directive, and the text after it; nothing of
\* the conditional when no branch is selected.  For
\* #if a / X / #elif b / Y / #else / Z / #endif the outputs with {a}, {b}, {}
\* and {a, b} are X, Y, Z and X.
C6_FirstMatchingBranch ==
    Rendered =>
        LET lines == DocLines
            kinds == KindsOf(lines)
            at == {i \in 1..Len(lines) : kinds[i] # "text"}
            reading == Read(lines, symbols)
            selects(i) ==
                \/ kinds[i] \in {"else", "endif"}
                \/ kinds[i] \in {"if", "elif"} /\ evaluate(GuardOf(lines[i])[2], symbols)
            first == CHOOSE i \in at : \A j \in at : i <= j
            last == CHOOSE i \in at : \A j \in at : j <= i
            sel == CHOOSE i \in at : selects(i) /\ \A j \in at : j < i => ~selects(j)
            next == CHOOSE i \in at : i > sel /\ \A j \in at : j > sel => i <= j
            body == IF sel = last THEN <<>> ELSE SubSeq(lines, sel + 1, next - 1)
        IN  /\ (/\ Cardinality({i \in at : kinds[i] = "if"}) = 1
                /\ reading.ok
                /\ reading.open = 0) =>
                   out = WithoutFinalNewline(
                             TextOf(SubSeq(lines, 1, first - 1) \o body
                                    \o SubSeq(lines, last + 1, Len(lines))))
            /\ text = ClaimedExample =>
                   out = (IF IdA \in symbols THEN <<"X">>
                          ELSE IF IdB \in symbols THEN <<"Y">> ELSE <<"Z">>)

\* #if a / X / #elif b / Y / #else / Z / #endif rendered with {a, b} is X
C6_Witness ==
    /\ Rendered
    /\ text = ClaimedExample
    /\ symbols = {IdA, IdB}
    /\ out = <<"X">>

\* C7: conditionals nest.  A document whose conditionals are all closed and
\* nest two deep or deeper compiles, and its output is the text lines read
\* while every branch around them was selected: an inner conditional is
\* rendered by the first-match rule where its outer branch is selected and
\* not at all where it is not.
C7_NestedConditionals ==
    TCompiled =>
        LET lines == DocLines
            reading == Read(lines, symbols)
        IN  (Deepest(KindsOf(lines)) >= 2 /\ reading.ok /\ reading.open = 0) =>
                /\ result[1] = "ok"
                /\ Rendered => out = WithoutFinalNewline(reading.shown)

\* #if a / q< / #if b / p1 / #endif / q> / #endif rendered with {a, b}
C7_Witness ==
    /\ Rendered
    /\ text = Join(<<IfLine(IdA), MarkBefore(1), IfLine(IdB), Mark(0, 1), EndifLine,
                     MarkAfter(1), EndifLine>>, LINEBREAK)
    /\ symbols = {IdA, IdB}
    /\ out = Join(<<MarkBefore(1), Mark(0, 1), MarkAfter(1)>>, LINEBREAK)

NoDirectives(lines) == \A i \in 1..Len(lines) : ~IsDirective(lines[i])
NoLineEndsWithCR(lines) ==
    \A i \in 1..Len(lines) : lines[i] = <<>> \/ lines[i][Len(lines[i])] # "\r"

\* C8 as claimed: a document with no directive line renders to itself
C8_RoundTripOfEveryPlainDocument ==
    (Rendered /\ NoDirectives(DocLines)) => out = text

\* C8, amended: a document with no directive line and no line that ends with
\* a carriage return compiles, and renders to itself with every symbol set.
\* A document with no directive line compiles, and renders to its lines
\* without the carriage returns they end with, a newline between them.
C8_RoundTripWithoutCR ==
    TCompiled =>
        LET lines == DocLines
        IN  /\ (NoDirectives(lines) /\ NoLineEndsWithCR(lines)) =>
                    /\ result[1] = "ok"
                    /\ Rendered => out = text
            /\ NoDirectives(lines) =>
                    /\ result[1] = "ok"
                    /\ Rendered =>
                           out = Join([n \in 1..Len(lines) |-> rstrip(lines[n], {"\r"})],
                                      LINEBREAK)

\* " X" and an empty last line, rendered with {a}
C8_Witness ==
    /\ Rendered
    /\ text = <<" ", "X", "\n">>
    /\ symbols = {IdA}
    /\ out = text

\* C9: what render concatenates is empty or ends with a newline, and render
\* returns it without that one newline: the lines shown, a newline between
\* them; the empty string when nothing is shown.
C9_OneTrailingNewlineCut ==
    Rendered =>
        LET joined == _render_sub_blocks(result[2], symbols)[2]
        IN  /\ joined = <<>> \/ joined[Len(joined)] = "\n"
            /\ joined = Read(DocLines, symbols).shown
            /\ joined = <<>> => out = <<>>
            /\ joined # <<>> => out \o LINEBREAK = joined

\* #if a / X / #endif rendered with {}: no branch taken, the output is empty
C9_Witness ==
    /\ Rendered
    /\ text = Join(<<IfLine(IdA), <<"X">>, EndifLine>>, LINEBREAK)
    /\ symbols = {}
    /\ out = <<>>

\* the lines after the last directive line, all lines when there is none
TrailingLines(lines) ==
    LET at == {i \in 1..Len(lines) : IsDirective(lines[i])}
        last == IF at = {} THEN 0 ELSE CHOOSE i \in at : \A j \in at : j <= i
    IN  SubSeq(lines, last + 1, Len(lines))

\* C10: when the input ends with a conditional open (and no directive before
\* the end was out of place), compile raises DirectiveSyntaxError; when it
\* ends with none open, compile returns a template whose last block is the
\* text after the last conditional.
C10_UnclosedConditional ==
    (mode = "tpl" /\ pc = "compiled") =>
        LET lines == DocLines
            reading == Read(lines, {})
        IN  reading.ok =>
                /\ reading.open > 0 => result = <<"raise", DirectiveSyntaxError>>
                /\ reading.open = 0 =>
                       /\ result[1] = "ok"
                       /\ result[2][Len(result[2])] = TextBlock(TextOf(TrailingLines(lines)))

\* #if a / X / #else / Z: the input ends inside the #else body
C10_Witness ==
    /\ mode = "tpl" /\ pc = "compiled"
    /\ text = Join(<<IfLine(IdA), <<"X">>, ElseLine, <<"Z">>>>, LINEBREAK)
    /\ Read(DocLines, {}).open = 1
    /\ result = <<"raise", DirectiveSyntaxError>>

(***************************************************************************)
(* Documents with a directive out of place: a well-formed document with    *)
(* one more directive line put in before any of its lines or at its end.   *)
(***************************************************************************)
UnknownLine == <<"#", "f", "o", "o">>
PrefixAloneLine == <<"#">>

StrayLines ==
    {ElifLine(IdA), ElseLine, EndifLine, UnknownLine, PrefixAloneLine,
     <<OGHAM>> \o EndifLine, <<NBSP>> \o ElseLine \o <<OGHAM>>}

\* one conditional, or one conditional inside a branch of another, between
\* two lines of text
StrayBases ==
    {<<BeforeText>> \o c \o <<AfterText>> : c \in NestedConds(0) \cup NestedConds(1)}

InsertLine(d, n, line) == SubSeq(d, 1, n - 1) \o <<line>> \o SubSeq(d, n, Len(d))

StrayDocs ==
    UNION {{InsertLine(d, n, line) : n \in 1..(Len(d) + 1), line \in StrayLines} :
               d \in StrayBases}

StrayInputs == {Join(d, LINEBREAK) : d \in StrayBases \cup StrayDocs \cup {<<l>> : l \in StrayLines}}

\* the documents with a line put in that no place allows: an #endif more
\* than the ones that close a conditional, an unknown keyword, the prefix
\* alone
NowhereAllowed == {EndifLine, <<OGHAM>> \o EndifLine, UnknownLine, PrefixAloneLine}
NowhereAllowedInputs ==
    UNION {{Join(InsertLine(d, n, line), LINEBREAK) :
               n \in 1..(Len(d) + 1), line \in NowhereAllowed} : d \in StrayBases}

StrayInit ==
    /\ mode = "tpl"
    /\ pc = "input"
    /\ text \in StrayInputs
    /\ tokens = <<>>
    /\ result = NoResult
    /\ symbols = {}
    /\ value = FALSE
    /\ out = <<>>
    /\ PPD_PREFIX = <<"#">>
    /\ prefix_arg = <<"str", <<"#">>>>

SpecStray == StrayInit /\ [][TemplateNext]_vars

\* The first directive of kinds[i..] that is out of place, 0 when there is
\* none: open lists, outermost first, the branch ("if" or "else") that each
\* conditional still open is in.
RECURSIVE FirstMisplaced(_, _, _)
FirstMisplaced(kinds, i, open) ==
    IF i > Len(kinds) THEN 0
    ELSE
    LET top == open[Len(open)]
    IN  CASE kinds[i] = "text" -> FirstMisplaced(kinds, i + 1, open)
          [] kinds[i] = "if" -> FirstMisplaced(kinds, i + 1, Append(open, "if"))
          [] kinds[i] = "elif" ->
                 IF open = <<>> \/ top = "else" THEN i
                 ELSE FirstMisplaced(kinds, i + 1, open)
          [] kinds[i] = "else" ->
                 IF open = <<>> \/ top = "else" THEN i
                 ELSE FirstMisplaced(kinds, i + 1, Append(Front(open), "else"))
          [] kinds[i] = "endif" ->
                 IF open = <<>> THEN i
                 ELSE FirstMisplaced(kinds, i + 1, Front(open))
          [] OTHER -> i

\* C11: a directive where it is not allowed makes compile raise
\* DirectiveSyntaxError: an #elif, #else or #endif with no #if open at that
\* level, an #elif or a second #else after the #else of the same
\* conditional, and a directive line whose keyword is none of the four,
\* the prefix alone included.  A document with no such directive and every
\* conditional closed compiles.
C11_MisplacedDirective ==
    TCompiled =>
        LET kinds == KindsOf(DocLines)
        IN  /\ FirstMisplaced(kinds, 1, <<>>) # 0
                => result = <<"raise", DirectiveSyntaxError>>
            /\ text \in NowhereAllowedInputs
                => result = <<"raise", DirectiveSyntaxError>>
            /\ text \in {Join(d, LINEBREAK) : d \in StrayBases} => result[1] = "ok"

\* #if b / p1 / #else / pe / #else / #endif between two lines of text: the
\* second #else was rejected
C11_Witness ==
    /\ TCompiled
    /\ text = Join(<<BeforeText, IfLine(IdB), Mark(0, 1), ElseLine, MarkElse(0),
                     ElseLine, EndifLine, AfterText>>, LINEBREAK)
    /\ FirstMisplaced(KindsOf(DocLines), 1, <<>>) = 6
    /\ result = <<"raise", DirectiveSyntaxError>>

(***************************************************************************)
(* ppdpy.set_directive_prefix and the documents written with a prefix.     *)
(***************************************************************************)
\* string.digits, string.ascii_letters, string.punctuation
digits == {"0", "1", "2", "3", "4", "5", "6", "7", "8", "9"}
ascii_letters ==
    {"a", "b", "c", "d", "e", "f", "g", "h", "i", "j", "k", "l", "m",
     "n", "o", "p", "q", "r", "s", "t", "u", "v", "w", "x", "y", "z",
     "A", "B", "C", "D", "E", "F", "G", "H", "I", "J", "K", "L", "M",
     "N", "O", "P", "Q", "R", "S", "T", "U", "V", "W", "X", "Y", "Z"}
punctuation ==
    {"!", "\"", "#", "$", "%", "&", "'", "(", ")", "*", "+", ",", "-", ".", "/",
     ":", ";", "<", "=", ">", "?", "@", "[", "\\", "]", "^", "_", GRAVE, "{", "|",
     "}", "~"}
allowed_chars == digits \cup ascii_letters \cup punctuation

\* template_compiler.set_directive_prefixes(prefix): the four directive
\* keywords are built from PPD_PREFIX
set_directive_prefixes(p) == PPD_PREFIX' = p

\* ppdpy.set_directive_prefix(prefix): arg is <<type name, characters>>
set_directive_prefix(arg) ==
    /\ mode = "tpl"
    /\ pc = "input"
    /\ prefix_arg' = arg
    /\ IF arg[1] # "str" THEN
           /\ result' = <<"raise", ValueError>>
           /\ UNCHANGED PPD_PREFIX
       ELSE IF \E n \in 1..Len(arg[2]) : arg[2][n] \notin allowed_chars THEN
           /\ result' = <<"raise", ValueError>>
           /\ UNCHANGED PPD_PREFIX
       ELSE
           /\ result' = NoResult
           /\ set_directive_prefixes(arg[2])
    /\ UNCHANGED <<mode, pc, text, tokens, symbols, value, out>>

\* the caller goes on to its next call with the same document
NextCall ==
    /\ mode = "tpl"
    /\ pc \in {"compiled", "rendered"}
    /\ pc' = "input"
    /\ result' = NoResult
    /\ symbols' = {}
    /\ out' = <<>>
    /\ UNCHANGED <<mode, text, tokens, value, PPD_PREFIX, prefix_arg>>

\* prefixes made only of letters, digits and punctuation
GoodPrefixes == {<<"#">>, <<"@">>, <<"%", "%">>, <<"p">>, <<"P">>, <<GRAVE>>, <<>>}
PrefixArgs ==
    {<<"str", p>> : p \in GoodPrefixes}
    \cup {<<"str", <<" ">>>>, <<"str", <<"@", "\t">>>>, <<"NoneType", <<>>>>}

\* a conditional written with prefix p: a guard for each #if/#elif branch,
\* with or without #else, after a line that begins with another prefix
\* (old, <<>> for no such line) and before a line of text
OldPrefixes == {<<>>, <<"#">>, <<"@">>}
PrefixShapes ==
    UNION {[gs : [1..k -> Guards], hasElse : BOOLEAN, old : OldPrefixes] : k \in 1..2}

OldLine(q) == q \o <<"e", "n", "d", "i", "f">>

WrittenWith(s, p) ==
    (IF s.old = <<>> THEN <<>> ELSE <<OldLine(s.old)>>)
    \o Concat([i \in 1..Len(s.gs) |->
                  <<p \o (IF i = 1 THEN <<"i", "f", " ">> ELSE <<"e", "l", "i", "f", " ">>)
                      \o s.gs[i],
                    BranchText(i)>>])
    \o (IF s.hasElse THEN <<p \o <<"e", "l", "s", "e">>, ElseText>> ELSE <<>>)
    \o <<p \o <<"e", "n", "d", "i", "f">>, AfterText>>

PrefixTexts ==
    {Join(WrittenWith(s, p), LINEBREAK) : s \in PrefixShapes, p \in GoodPrefixes}

PrefixInit ==
    /\ mode = "tpl"
    /\ pc = "input"
    /\ text \in PrefixTexts
    /\ tokens = <<>>
    /\ result = NoResult
    /\ symbols = {}
    /\ value = FALSE
    /\ out = <<>>
    /\ PPD_PREFIX = <<"#">>
    /\ prefix_arg = <<"str", <<"#">>>>

PrefixNext ==
    \/ \E arg \in PrefixArgs : set_directive_prefix(arg)
    \/ Compiles
    \/ \E syms \in SUBSET RenderSymbols : Render(syms)
    \/ NextCall

SpecPrefix == PrefixInit /\ [][PrefixNext]_vars

\* made only of ASCII letters, digits and punctuation
WellFormedPrefix(p) == \A n \in 1..Len(p) : p[n] \in allowed_chars

\* the lines a conditional of shape s shows: the line that begins with
\* another prefix, the body of the first branch whose guard is in syms, else
\* the #else body, and the line after the conditional
FirstTrue(s, syms) ==
    IF \E i \in 1..Len(s.gs) : s.gs[i] \in syms
    THEN CHOOSE i \in 1..Len(s.gs) :
             s.gs[i] \in syms /\ \A j \in 1..(i - 1) : s.gs[j] \notin syms
    ELSE 0

ShownOf(s, syms) ==
    (IF s.old = <<>> THEN <<>> ELSE <<OldLine(s.old)>>)
    \o (IF FirstTrue(s, syms) # 0 THEN <<BranchText(FirstTrue(s, syms))>>
        ELSE IF s.hasElse THEN <<ElseText>> ELSE <<>>)
    \o <<AfterText>>

\* the shapes whose line with another prefix does not begin with p
ShapesFor(p) == {s \in PrefixShapes : s.old = <<>> \/ ~startswith(OldLine(s.old), p)}

\* C12: after set_directive_prefix(p) succeeds, p made only of ASCII
\* letters, digits and punctuation, every compile until the prefix is set
\* again uses p: a well-formed document written with p+if, p+elif, p+else,
\* p+endif compiles and renders by the rules of the default prefix, and a
\* line that begins with another prefix but not with p is plain text.
\* Stated for the prefixes p that have at least one character.
C12_PrefixInEffect ==
    (TCompiled /\ prefix_arg[1] = "str" /\ WellFormedPrefix(prefix_arg[2])
        /\ prefix_arg[2] # <<>>) =>
        \A s \in ShapesFor(prefix_arg[2]) :
            text = Join(WrittenWith(s, prefix_arg[2]), LINEBREAK) =>
                /\ result[1] = "ok"
                /\ Rendered => out = Join(ShownOf(s, symbols), LINEBREAK)

\* What holds of the code: the same for the prefixes that have a character
\* and no upper-case letter.
C12_LowerCasePrefixInEffect ==
    (TCompiled /\ prefix_arg[1] = "str" /\ WellFormedPrefix(prefix_arg[2])
        /\ prefix_arg[2] # <<>> /\ Lower(prefix_arg[2]) = prefix_arg[2]) =>
        \A s \in ShapesFor(prefix_arg[2]) :
            text = Join(WrittenWith(s, prefix_arg[2]), LINEBREAK) =>
                /\ result[1] = "ok"
                /\ PPD_PREFIX = prefix_arg[2]
                /\ Rendered => out = Join(ShownOf(s, symbols), LINEBREAK)

(***************************************************************************)
(* Documents of one conditional whose lines are written in several ways:   *)
(* whitespace around a line, upper-case keywords, a space or a tab after   *)
(* the keyword, text after #else and #endif, a carriage return at the end. *)
(***************************************************************************)
IfWritings ==
    {<<"#", "i", "f", " ", "a">>,
     <<" ", " ", "#", "I", "F", " ", "a">>,
     <<"\t", "#", "I", "f", " ", "a", "\r">>,
     <<VT, FS, NBSP, OGHAM, "#", "I", "F", " ", "a", GS, RS, US, NEL, OGHAM>>,
     <<"#", "i", "f", " ", "a", "n", "d">>,
     <<"#", "i", "f", " ", " ", "a">>,
     <<"#", "i", "f", "\t", "a">>,
     <<"#", "i", "f">>,
     <<"#", "i", "f", " ">>}

ElifWritings ==
    {<<"#", "e", "l", "i", "f", " ", "b">>,
     <<"#", "E", "L", "I", "F", " ", "b", " ">>,
     <<" ", "#", "e", "l", "i", "f", "\t", "b">>,
     <<OGHAM, "#", "e", "l", "i", "f", " ", "(">>,
     <<"#", "e", "l", "i", "f">>}

ElseWritings ==
    {<<"#", "e", "l", "s", "e">>,
     <<"#", "E", "l", "s", "e", " ", "z">>,
     <<"#", "e", "l", "s", "e", "\t", "z">>}

EndifWritings ==
    {<<"#", "e", "n", "d", "i", "f">>,
     <<"#", "E", "n", "d", "i", "f">>,
     <<" ", OGHAM, "#", "E", "N", "D", "I", "F", " ", OGHAM, "\r">>,
     <<"#", "e", "n", "d", "i", "f", " ", "x">>,
     <<"#", "e", "n", "d", "i", "f", "\t", "x">>}

TextWritings ==
    {<<"X">>, <<" ", "X", " ">>, <<"X", "#">>, <<"X", "\r">>, <<" ", "#", " ">>, <<>>,
     <<OGHAM, NBSP, VT, "X", US, NEL, OGHAM>>}

Optional(S) == {<<>>} \cup {<<x>> : x \in S}

WritingDocs ==
    {<<i, t>> \o (IF ei = <<>> THEN <<>> ELSE ei \o <<<<"Y">>>>)
              \o (IF el = <<>> THEN <<>> ELSE el \o <<<<"Z">>>>)
              \o <<en>> :
         i \in IfWritings, t \in TextWritings, ei \in Optional(ElifWritings),
         el \in Optional(ElseWritings), en \in EndifWritings}

SingleLines ==
    {<<l>> : l \in IfWritings \cup ElifWritings \cup ElseWritings \cup EndifWritings
                     \cup TextWritings}

\* a conditional with white space around its directives, beside the same
\* conditional without
IndentedPairs ==
    {<<Join(Indented(d, w), LINEBREAK), Join(d, LINEBREAK)>> :
         d \in NestedConds(0) \cup NestedConds(1), w \in LineSpaces}

WritingInputs ==
    {Join(d, LINEBREAK) : d \in WritingDocs \cup SingleLines}
    \cup {p[1] : p \in IndentedPairs}

WritingInit ==
    /\ mode = "tpl"
    /\ pc = "input"
    /\ text \in WritingInputs
    /\ tokens = <<>>
    /\ result = NoResult
    /\ symbols = {}
    /\ value = FALSE
    /\ out = <<>>
    /\ PPD_PREFIX = <<"#">>
    /\ prefix_arg = <<"str", <<"#">>>>

SpecWriting == WritingInit /\ [][TemplateNext]_vars

\* the position of the first character of l that is in seps, or 0
FirstOf(l, seps) ==
    IF \E n \in 1..Len(l) : l[n] \in seps
    THEN CHOOSE n \in 1..Len(l) : l[n] \in seps /\ \A j \in 1..(n - 1) : l[j] \notin seps
    ELSE 0

\* A directive line as its keyword in lower case, one space and the text
\* after the keyword, the keyword being the first word of the stripped line
\* with the words delimited by the characters of seps; any other line as it
\* is.
Canonical(line, seps) ==
    IF ~IsDirective(line) THEN line
    ELSE LET l == Stripped(line)
             n == FirstOf(l, seps)
         IN  IF n = 0 THEN Lower(l)
             ELSE Lower(SubSeq(l, 1, n - 1)) \o <<" ">> \o SubSeq(l, n + 1, Len(l))

\* an #if or #elif line with nothing after the keyword
BareGuardLine(line) ==
    Lower(Stripped(line)) \in {PPD_PREFIX \o <<"i", "f">>, PPD_PREFIX \o <<"e", "l", "i", "f">>}

\* The error a reading of lines that is not ok stops with, the line that
\* fails being the first whose reading is not ok: the error of its guard
\* when it is an #if or #elif that a guard would make readable,
\* DirectiveSyntaxError otherwise and when a conditional is left open.
RaiseOf(lines, syms) ==
    LET failing == {n \in 1..Len(lines) : ~Read(SubSeq(lines, 1, n), syms).ok}
        first == CHOOSE n \in failing : \A m \in failing : n <= m
        kind == KindOf(lines[first])
        guarded == PPD_PREFIX \o (IF kind = "if" THEN <<"i", "f", " ", "a">>
                                  ELSE <<"e", "l", "i", "f", " ", "a">>)
    IN  IF failing = {} THEN DirectiveSyntaxError
        ELSE IF /\ kind \in {"if", "elif"}
                /\ Read(SubSeq(lines, 1, first - 1) \o <<guarded>>, syms).ok
             THEN GuardOf(lines[first])[2]
        ELSE DirectiveSyntaxError

\* Directive recognition with the words of a line delimited by seps: compile
\* reads the document as a line-by-line reading reads its canonical lines.
\* A document that is not read to its end with every conditional closed
\* raises the error of its first failing line: ExpressionSyntaxError for a
\* guard that is no expression, DirectiveSyntaxError otherwise.  A document
\* with a line that is not a directive alone compiles to that line as text;
\* a document whose first line is an #if with no expression raises
\* DirectiveSyntaxError; white space around the directives of a document
\* changes nothing of what it compiles to.
RecognisedBy(seps) ==
    TCompiled =>
        LET lines == DocLines
            canon == [n \in 1..Len(lines) |-> Canonical(lines[n], seps)]
            reading == Read(canon, symbols)
        IN  /\ result[1] = "ok" <=> (reading.ok /\ reading.open = 0)
            /\ Rendered => out = WithoutFinalNewline(reading.shown)
            /\ (Len(lines) = 1 /\ ~IsDirective(lines[1]))
                   => result = <<"ok", <<TextBlock(Bare(lines[1]) \o LINEBREAK)>>>>
            /\ (Len(lines) = 1 /\ IsDirective(lines[1])) => result[1] = "raise"
            /\ result[1] # "ok" => result = <<"raise", RaiseOf(canon, symbols)>>
            /\ \A p \in IndentedPairs : text = p[1] => result = compiles(p[2])
            /\ BareGuardLine(lines[1]) => result = <<"raise", DirectiveSyntaxError>>
            /\ (Len(lines) >= 3 /\ result[1] = "ok" /\ ~IsDirective(lines[2]))
                   => result[2][1][2][1][3][1] = TextBlock(Bare(lines[2]) \o LINEBREAK)

\* C13 as claimed: a line is a directive exactly when, without its trailing
\* CR/LF and the whitespace around it, it starts with the prefix, and any
\* other line is stored as text without its trailing CR/LF; the keyword is
\* the first whitespace-delimited word in lower case, so a keyword followed
\* by any whitespace and further text is that directive; the guard is the
\* text after the keyword, and an #if or #elif without it raises
\* DirectiveSyntaxError.
C13_KeywordBeforeAnyWhitespace == RecognisedBy(Whitespace)

\* C13 as the code has it: the same with the keyword the first
\* space-delimited word of the stripped line, so that a keyword followed by a
\* tab and further text is not one of the four directives.
C13_KeywordBeforeSpace == RecognisedBy({" "})

\* "  #IF a" / " X " / "#Endif" compiled, and with a selected rendered " X "
C13_Witness ==
    /\ Rendered
    /\ text = Join(<<<<" ", " ", "#", "I", "F", " ", "a">>, <<" ", "X", " ">>,
                     <<"#", "E", "n", "d", "i", "f">>>>, LINEBREAK)
    /\ symbols = {IdA}
    /\ out = <<" ", "X", " ">>

(***************************************************************************)
(* The AST the grammar gives a token sequence.  toks[i..j-1] is derived    *)
(* from a nonterminal when j is among the ends of that nonterminal from i. *)
(***************************************************************************)
RECURSIVE ExprAst(_, _, _), TermAst(_, _, _), FactorAst(_, _, _), PrimaryAst(_, _, _)

\* primary := ID | ( expr )
PrimaryAst(toks, i, j) ==
    IF toks[i] = LP THEN ExprAst(toks, i + 1, j - 1) ELSE Id(toks[i])

\* factor := not primary | primary
FactorAst(toks, i, j) ==
    IF toks[i] = TK_NOT THEN Not(PrimaryAst(toks, i + 1, j)) ELSE PrimaryAst(toks, i, j)

\* term := factor (and factor)*, the factors combined from the left
TermAst(toks, i, j) ==
    LET splits == {k \in TermEnds(toks, i) :
                       k < j /\ toks[k] = TK_AND /\ j \in FactorEnds(toks, k + 1)}
    IN  IF splits = {} THEN FactorAst(toks, i, j)
        ELSE LET k == CHOOSE k \in splits : TRUE
             IN  And(TermAst(toks, i, k), FactorAst(toks, k + 1, j))

\* expr := term (or expr)?
ExprAst(toks, i, j) ==
    IF j \in TermEnds(toks, i) THEN TermAst(toks, i, j)
    ELSE LET k == CHOOSE k \in TermEnds(toks, i) :
                      k < j /\ toks[k] = TK_OR /\ j \in ExprEnds(toks, k + 1)
         IN  Or(TermAst(toks, i, k), ExprAst(toks, k + 1, j))

GrammarAst(toks) == ExprAst(toks, 1, Len(toks) + 1)

\* C14: parse accepts exactly the language of expr := term (or expr)?;
\* term := factor (and factor)*; factor := not primary | primary;
\* primary := ID | ( expr ).  A token sequence derivable from expr compiles
\* to the AST the grammar defines, any other raises ExpressionSyntaxError;
\* "not" applies to the one primary after it: "not a and b" is
\* And(Not(a), b), "not (a and b) or c" is Or(Not(And(a, b)), c) and
\* "not not a" is rejected; parentheses around a whole expression leave its
\* AST unchanged, and "(((a)))" compiles as "a" does.
C14_ParserAcceptsGrammar ==
    Compiled =>
        /\ IF Derivable(tokens)
           THEN /\ result = <<"ok", GrammarAst(tokens)>>
                /\ parse(<<LP>> \o tokens \o <<RP>>) = result
           ELSE result = <<"raise", ExpressionSyntaxError>>
        /\ tokens = <<TK_NOT, IdA, TK_AND, IdB>>
               => result = <<"ok", And(Not(Id(IdA)), Id(IdB))>>
        /\ tokens = <<TK_NOT, LP, IdA, TK_AND, IdB, RP, TK_OR, IdC>>
               => result = <<"ok", Or(Not(And(Id(IdA), Id(IdB))), Id(IdC))>>
        /\ tokens = <<TK_NOT, TK_NOT, IdA>>
               => result = <<"raise", ExpressionSyntaxError>>
        /\ tokens = <<LP, LP, LP, IdA, RP, RP, RP>>
               => /\ result = <<"ok", Id(IdA)>>
                  /\ result = compile_expression(IdA)

\* "not (a and b) or c" was derivable and compiled to Or(Not(And(a, b)), c)
C14_Witness ==
    /\ Compiled
    /\ tokens = <<TK_NOT, LP, IdA, TK_AND, IdB, RP, TK_OR, IdC>>
    /\ Derivable(tokens)
    /\ result = <<"ok", GrammarAst(tokens)>>
    /\ result = <<"ok", Or(Not(And(Id(IdA), Id(IdB))), Id(IdC))>>

====
